---------------------------- MODULE Spec2Model ----------------------------
(***************************************************************************)
(* A model of the FrontDocker / LiveSDK orchestration core:                *)
(*   - the version matcher and the dependency resolver (pure functions),   *)
(*   - the PermissionsManager,                                             *)
(*   - the AuditLogger,                                                    *)
(*   - the LiveSDKHost (registry, loadMFE, unloadMFE, registerAPI, call).  *)
(*                                                                         *)
(* JavaScript strings whose characters the code inspects (versions,        *)
(* ranges, dependency specs, module names, permission patterns, URLs) are  *)
(* sequences of one-character strings.  An optional value (T | null,       *)
(* T | undefined) is the empty sequence or a one-element sequence.         *)
(***************************************************************************)
EXTENDS Integers, Sequences, FiniteSets, TLC

-----------------------------------------------------------------------------
(* Optional values and strings                                             *)

Null == << >>

Some(x) == << x >>

IsSome(o) == o # << >>

Get(o) == o[1]

Digits == {"0", "1", "2", "3", "4", "5", "6", "7", "8", "9"}

DigitVal(c) ==
  CASE c = "0" -> 0 [] c = "1" -> 1 [] c = "2" -> 2 [] c = "3" -> 3
    [] c = "4" -> 4 [] c = "5" -> 5 [] c = "6" -> 6 [] c = "7" -> 7
    [] c = "8" -> 8 [] c = "9" -> 9

\* String.prototype.startsWith
StartsWith(s, p) == Len(p) <= Len(s) /\ SubSeq(s, 1, Len(p)) = p

\* String.prototype.endsWith
EndsWith(s, p) == Len(p) <= Len(s) /\ SubSeq(s, Len(s) - Len(p) + 1, Len(s)) = p

\* String.prototype.slice(k) for k >= 0
SliceFrom(s, k) == SubSeq(s, k + 1, Len(s))

\* The number of consecutive decimal digits of s from position i on (\d+).
RECURSIVE DigitRun(_, _)
DigitRun(s, i) ==
  IF i <= Len(s) /\ s[i] \in Digits THEN 1 + DigitRun(s, i + 1) ELSE 0

\* parseInt(s, 10) of a non-empty string of digits
RECURSIVE ParseInt(_)
ParseInt(s) ==
  IF Len(s) = 0 THEN 0
  ELSE 10 * ParseInt(SubSeq(s, 1, Len(s) - 1)) + DigitVal(s[Len(s)])

\* The position of the first occurrence of character c in s, 0 if none.
RECURSIVE IndexFrom(_, _, _)
IndexFrom(s, c, i) ==
  IF i > Len(s) THEN 0 ELSE IF s[i] = c THEN i ELSE IndexFrom(s, c, i + 1)

\* The position of the last occurrence of character c in s, 0 if none.
RECURSIVE LastIndexFrom(_, _, _)
LastIndexFrom(s, c, i) ==
  IF i < 1 THEN 0 ELSE IF s[i] = c THEN i ELSE LastIndexFrom(s, c, i - 1)

\* Array.prototype.includes / the elements of an array
Range(seq) == {seq[i] : i \in 1..Len(seq)}

-----------------------------------------------------------------------------
(* VersionMatcher: dependency-resolver.ts                                  *)

VersionMatch_TwoNumbers(version, n1, n2, n3) ==
  IF n1 > 0 /\ n1 + 1 <= Len(version) /\ version[n1 + 1] = "." /\ n2 > 0
  THEN Some([major |-> ParseInt(SubSeq(version, 1, n1)),
             minor |-> ParseInt(SubSeq(version, n1 + 2, n1 + 1 + n2)),
             patch |-> 0])
  ELSE Null

\* The match of /^(\d+)\.(\d+)\.(\d+)/ given the lengths n1, n2, n3 of the
\* three digit runs: Null, or the three numbers.
VersionMatch(version, n1, n2, n3) ==
  IF /\ n1 > 0
     /\ n1 + 1 <= Len(version) /\ version[n1 + 1] = "."
     /\ n2 > 0
     /\ n1 + n2 + 2 <= Len(version) /\ version[n1 + n2 + 2] = "."
     /\ n3 > 0
  THEN Some([major |-> ParseInt(SubSeq(version, 1, n1)),
             minor |-> ParseInt(SubSeq(version, n1 + 2, n1 + 1 + n2)),
             patch |-> ParseInt(SubSeq(version, n1 + n2 + 3, n1 + n2 + 2 + n3))])
  ELSE Null

\* The second and the third digit run, after the first of length n1
SecondRun(version, n1) == DigitRun(version, n1 + 2)

ThirdRun(version, n1, n2) == DigitRun(version, n1 + n2 + 3)

VersionRuns(version, n1, n2) == VersionMatch(version, n1, n2, ThirdRun(version, n1, n2))

VersionFrom(version, n1) == VersionRuns(version, n1, SecondRun(version, n1))

\* parseVersion(version)
ParseVersion(version) == VersionFrom(version, DigitRun(version, 1))

\* dep.match(/^([^@]+)@(.+)$/): the name up to the first '@' and the rest;
\* without a match the whole string is the name and the range is '*'.
ParseDependency(dep) ==
  LET at == IndexFrom(dep, "@", 1)
  IN  IF at > 1 /\ at < Len(dep)
      THEN [name |-> SubSeq(dep, 1, at - 1), range |-> SliceFrom(dep, at)]
      ELSE [name |-> dep, range |-> <<"*">>]

CaretSatisfied_NoZeroRule(p, r) ==
  IF p.major # r.major THEN FALSE
  ELSE p.minor > r.minor \/ (p.minor = r.minor /\ p.patch >= r.patch)

\* The caret comparison of satisfiesRange (lines 45-53)
CaretSatisfied(p, r) ==
  IF p.major # r.major THEN FALSE
  ELSE IF p.major = 0 THEN p.minor = r.minor /\ p.patch >= r.patch
  ELSE p.minor > r.minor \/ (p.minor = r.minor /\ p.patch >= r.patch)

TildeSatisfied(p, r) ==
  p.major = r.major /\ p.minor = r.minor /\ p.patch >= r.patch

GteSatisfied(p, r) ==
  IF p.major > r.major THEN TRUE
  ELSE IF p.major < r.major THEN FALSE
  ELSE IF p.minor > r.minor THEN TRUE
  ELSE IF p.minor < r.minor THEN FALSE
  ELSE p.patch >= r.patch

ExactSatisfied(p, r) ==
  p.major = r.major /\ p.minor = r.minor /\ p.patch = r.patch

\* The comparison of the parsed version p with the parsed range version rv
Compared(kind, p, rv) ==
  /\ IsSome(rv)
  /\ CASE kind = "^" -> CaretSatisfied(p, Get(rv))
       [] kind = "~" -> TildeSatisfied(p, Get(rv))
       [] kind = ">=" -> GteSatisfied(p, Get(rv))
       [] OTHER -> ExactSatisfied(p, Get(rv))

\* satisfiesRange for the parsed version and a range that is not '*' or 'latest'
ParsedSatisfies(parsed, range) ==
  IF ~IsSome(parsed) THEN FALSE
  ELSE IF StartsWith(range, <<"^">>)
  THEN Compared("^", Get(parsed), ParseVersion(SliceFrom(range, 1)))
  ELSE IF StartsWith(range, <<"~">>)
  THEN Compared("~", Get(parsed), ParseVersion(SliceFrom(range, 1)))
  ELSE IF StartsWith(range, <<">", "=">>)
  THEN Compared(">=", Get(parsed), ParseVersion(SliceFrom(range, 2)))
  ELSE Compared("=", Get(parsed), ParseVersion(range))

SatisfiesRange_Any(version, range) == TRUE

\* satisfiesRange(version, range)
SatisfiesRange(version, range) ==
  IF range = <<"*">> \/ range = <<"l", "a", "t", "e", "s", "t">> THEN TRUE
  ELSE ParsedSatisfies(ParseVersion(version), range)

-----------------------------------------------------------------------------
(* DependencyResolver: dependency-resolver.ts                              *)
(*                                                                         *)
(* A manifest is [name, version, url, dependencies, permissions]; an       *)
(* absent dependencies list and an empty one behave alike at every use.    *)
(* A Map<string, T> is a function whose domain is the set of its keys;     *)
(* where the code iterates a Map, its insertion order is kept beside it.   *)

\* inDegree after "Calculate in-degrees": for every module, the number of
\* entries of dependencyMap that name it.
InDegreeOf(order, depMap) ==
  [n \in Range(order) |->
     Cardinality({e \in UNION {{<<m, i>> : i \in 1..Len(depMap[m])} : m \in DOMAIN depMap} :
                    depMap[e[1]][e[2]] = n})]

\* The inner loop of "Process nodes": the edges of one dequeued node.
RECURSIVE KahnEdges(_, _, _, _)
KahnEdges(deps, i, inDegree, queue) ==
  IF i > Len(deps) THEN [inDegree |-> inDegree, queue |-> queue]
  ELSE
    LET dep == deps[i]
    IN  IF dep \in DOMAIN inDegree
        THEN LET old == inDegree[dep]
                 newDegree == (IF old = 0 THEN 1 ELSE old) - 1
                 deg2 == [inDegree EXCEPT ![dep] = newDegree]
             IN  KahnEdges(deps, i + 1, deg2,
                           IF newDegree = 0 THEN Append(queue, dep) ELSE queue)
        ELSE KahnEdges(deps, i + 1, inDegree, queue)

\* dependencyMap.get(node) || []
DepsOf(depMap, node) == IF node \in DOMAIN depMap THEN depMap[node] ELSE << >>

\* The while loop of "Process nodes"; st is the in-degrees and the queue.
RECURSIVE KahnLoop(_, _, _)
KahnLoop(depMap, st, result) ==
  IF st.queue = << >> THEN result
  ELSE KahnLoop(depMap,
                KahnEdges(DepsOf(depMap, Head(st.queue)), 1, st.inDegree, Tail(st.queue)),
                Append(result, Head(st.queue)))

Reverse_Not(seq) == seq

\* Array.prototype.reverse
Reverse(seq) == [i \in 1..Len(seq) |-> seq[Len(seq) + 1 - i]]

\* The names of seq, in order, whose in-degree is 0.
RECURSIVE ZeroDegree(_, _)
ZeroDegree(seq, inDegree) ==
  IF seq = << >> THEN << >>
  ELSE IF inDegree[Head(seq)] = 0
       THEN << Head(seq) >> \o ZeroDegree(Tail(seq), inDegree)
       ELSE ZeroDegree(Tail(seq), inDegree)

\* "Find nodes with no dependencies" and "Process nodes", then reverse()
SortFrom(order, depMap, inDegree) ==
  Reverse(KahnLoop(depMap,
                   [inDegree |-> inDegree, queue |-> ZeroDegree(order, inDegree)],
                   << >>))

\* topologicalSort(modules, dependencyMap); order is the key order of modules.
TopologicalSort(order, depMap) == SortFrom(order, depMap, InDegreeOf(order, depMap))

\* The loop over one manifest's dependencies (lines 175-199).
RECURSIVE ResolveDeps(_, _, _, _)
ResolveDeps(manifest, i, allModules, st) ==
  IF i > Len(manifest.dependencies) THEN st
  ELSE
    LET depStr == manifest.dependencies[i]
        pd     == ParseDependency(depStr)
        st1    == [st EXCEPT !.deps = Append(@, pd.name)]
    IN  IF pd.name \in DOMAIN allModules
        THEN LET depManifest == allModules[pd.name]
             IN  IF ~SatisfiesRange(depManifest.version, pd.range)
                 THEN ResolveDeps(manifest, i + 1, allModules,
                        [st1 EXCEPT !.conflicts = Append(@,
                           [module |-> manifest.name, required |-> depStr,
                            available |-> pd.name \o <<"@">> \o depManifest.version])])
                 ELSE IF pd.name \notin st1.processed
                 THEN ResolveDeps(manifest, i + 1, allModules,
                        [st1 EXCEPT !.toProcess = Append(@, depManifest)])
                 ELSE ResolveDeps(manifest, i + 1, allModules, st1)
        ELSE ResolveDeps(manifest, i + 1, allModules,
               [st1 EXCEPT !.conflicts = Append(@,
                  [module |-> manifest.name, required |-> depStr,
                   available |-> <<"not found">>])])

\* processed.add, resolved.set and the start of deps for manifest (lines 168-173)
Visit(st, manifest) ==
  [st EXCEPT !.toProcess = Tail(@),
             !.processed = @ \cup {manifest.name},
             !.order = Append(@, manifest.name),
             !.resolved = [n \in DOMAIN @ \cup {manifest.name} |->
                             IF n = manifest.name THEN manifest ELSE @[n]],
             !.deps = << >>]

\* dependencyMap.set(manifest.name, deps) (line 202)
SetDeps(st, name) ==
  [st EXCEPT !.dependencyMap =
     [n \in DOMAIN @ \cup {name} |-> IF n = name THEN st.deps ELSE @[n]]]

\* The while loop over toProcess (lines 165-203).
RECURSIVE ResolveLoop(_, _)
ResolveLoop(allModules, st) ==
  IF st.toProcess = << >> THEN st
  ELSE IF Head(st.toProcess).name \in st.processed
  THEN ResolveLoop(allModules, [st EXCEPT !.toProcess = Tail(@)])
  ELSE ResolveLoop(allModules,
         SetDeps(ResolveDeps(Head(st.toProcess), 1, allModules,
                             Visit(st, Head(st.toProcess))),
                 Head(st.toProcess).name))

AllModules_CatalogOnly(requested, availableManifests) == availableManifests

\* allModules: the available manifests, then the requested ones over them
\* (lines 155-158)
AllModules(requested, availableManifests) ==
  [n \in DOMAIN availableManifests \cup {requested[i].name : i \in 1..Len(requested)} |->
     IF \E i \in 1..Len(requested) : requested[i].name = n
     THEN requested[CHOOSE i \in 1..Len(requested) :
                      /\ requested[i].name = n
                      /\ \A j \in (i + 1)..Len(requested) : requested[j].name # n]
     ELSE availableManifests[n]]

\* The result of resolveDependencies from the state st its loop ended in
Resolution(st) ==
  [loadOrder |-> TopologicalSort(st.order, st.dependencyMap),
   resolved |-> st.resolved,
   conflicts |-> st.conflicts]

\* resolveDependencies(manifests, availableManifests)
ResolveDependencies(requested, availableManifests) ==
  Resolution(ResolveLoop(AllModules(requested, availableManifests),
               [toProcess |-> requested, processed |-> {}, order |-> << >>,
                resolved |-> << >>, conflicts |-> << >>,
                dependencyMap |-> << >>, deps |-> << >>]))

\* areDependenciesSatisfied(manifest, loadedModules)
AreDependenciesSatisfied(manifest, loadedModules) ==
  \A i \in 1..Len(manifest.dependencies) :
    LET pd == ParseDependency(manifest.dependencies[i])
    IN  /\ pd.name \in DOMAIN loadedModules
        /\ SatisfiesRange(loadedModules[pd.name].version, pd.range)

-----------------------------------------------------------------------------
(* The values the operations are exercised with                            *)

Shell == <<"s", "h", "e", "l", "l">>

EmptyCaller == << >>

AU == <<"a", "u">>

ORD == <<"o", "r">>

AN == <<"a", "n">>

Names == {AU, ORD, AN}

V100 == <<"1", ".", "0", ".", "0">>

V050 == <<"0", ".", "5", ".", "0">>

V000 == <<"0", ".", "0", ".", "0">>

\* Method names: two API methods, a name no module exports, and a name that
\* every JavaScript object inherits from Object.prototype.
MGet == <<"g", "e", "t">>

MSet == <<"s", "e", "t">>

MNone == <<"n", "o">>

MToString == <<"t", "o", "S", "t", "r", "i", "n", "g">>

\* A manifest's url, 'h/<name>-mfe.js'
UrlOf(n) == <<"h", "/">> \o n \o <<"-", "m", "f", "e", ".", "j", "s">>

Urls == {UrlOf(n) : n \in Names}

-----------------------------------------------------------------------------
VARIABLES
  \* PermissionsManager
  modulePermissions,      \* Map<string, PermissionsConfig>
  globalAllowedModules,   \* Set<string>
  globalAllowedActions,   \* Set<string>
  \* AuditLogger
  entries,                \* AuditLogEntry[]
  enabled,                \* boolean
  nextId,                 \* the number of ids generateId has produced
  \* LiveSDKHost
  manifests,              \* Map<string, ModuleManifest>
  registry,               \* Map<string, RegistryEntry>
  apis,                   \* Map<string, Record<string, function>>
  eventHandlers,          \* Map<LiveSDKEventType, EventHandler[]>
  handles,                \* the unsubscribe functions on has returned
  \* AIBridge
  llmConfig,              \* LLMConfig | null
  \* the invocations in progress: one per task
  op,                     \* the task's operation, its arguments and outcome
  stack,                  \* the task's loadMFE activations, innermost last
  emitted,                \* the events the task's operation has emitted
  loaderLog,              \* the importFn invocations and completions of the operation
  issued                  \* the number of operations issued to the host so far

permVars == << modulePermissions, globalAllowedModules, globalAllowedActions >>

auditVars == << entries, enabled, nextId >>

shellVars == << eventHandlers, handles, llmConfig >>

hostVars == << manifests, registry, apis, shellVars >>

taskVars == << op, stack, emitted, loaderLog >>

vars == << permVars, auditVars, hostVars, taskVars, issued >>

-----------------------------------------------------------------------------
(* PermissionsManager: permissions.ts                                      *)
(*                                                                         *)
(* A PermissionsConfig is [allowedModules, allowedActions, requiresAuth],  *)
(* each optional; the two lists are arrays of strings.                     *)

ModulePatternMatches_NoPrefix(pattern, targetModule) ==
  pattern = <<"*">> \/ pattern = targetModule

\* callerPermissions.allowedModules.some(pattern => ...) (lines 90-99)
ModulePatternMatches(pattern, targetModule) ==
  IF pattern = <<"*">> THEN TRUE
  ELSE IF pattern = targetModule THEN TRUE
  ELSE IF EndsWith(pattern, <<"*">>)
       THEN StartsWith(targetModule, SubSeq(pattern, 1, Len(pattern) - 1))
       ELSE FALSE

\* lines 111-114
ActionAllowed(allowedActions, targetModule, method) ==
  \/ <<"*">> \in Range(allowedActions)
  \/ method \in Range(allowedActions)
  \/ (targetModule \o <<".">> \o method) \in Range(allowedActions)

IsShellCaller_OnlyShell(callerModule) == callerModule = Shell

\* The caller test of line 68: !callerModule || callerModule === 'shell'
IsShellCaller(callerModule) == callerModule = << >> \/ callerModule = Shell

\* canCallModule with the default for a caller without configuration turned
\* into allow
CanCallModule_DefaultAllow(callerModule, targetModule, method) ==
  IF IsShellCaller(callerModule) THEN [allowed |-> TRUE, reason |-> Null]
  ELSE IF targetModule \in globalAllowedModules THEN [allowed |-> TRUE, reason |-> Null]
  ELSE [allowed |-> TRUE, reason |-> Null]

\* canCallModule(callerModule, targetModule, method): {allowed, reason?}
CanCallModule(callerModule, targetModule, method) ==
  IF IsShellCaller(callerModule) THEN [allowed |-> TRUE, reason |-> Null]
  ELSE IF targetModule \in globalAllowedModules THEN [allowed |-> TRUE, reason |-> Null]
  ELSE IF callerModule \notin DOMAIN modulePermissions
  THEN [allowed |-> FALSE,
        reason |-> Some(<<"Module '", callerModule, "' has no permissions configured">>)]
  ELSE
    LET callerPermissions == modulePermissions[callerModule]
    IN  IF /\ IsSome(callerPermissions.allowedModules)
           /\ ~\E i \in 1..Len(Get(callerPermissions.allowedModules)) :
                 ModulePatternMatches(Get(callerPermissions.allowedModules)[i], targetModule)
        THEN [allowed |-> FALSE,
              reason |-> Some(<<"Module '", callerModule,
                                "' is not allowed to access module '", targetModule, "'">>)]
        ELSE IF /\ IsSome(callerPermissions.allowedActions)
                /\ ~ActionAllowed(Get(callerPermissions.allowedActions), targetModule, method)
        THEN [allowed |-> FALSE,
              reason |-> Some(<<"Module '", callerModule, "' is not allowed to call '",
                                targetModule \o <<".">> \o method, "'">>)]
        ELSE [allowed |-> TRUE, reason |-> Null]

\* Map.prototype.set
MapSet(map, key, value) ==
  [k \in DOMAIN map \cup {key} |-> IF k = key THEN value ELSE map[k]]

MapDelete_Nothing(map, key) == map

\* Map.prototype.delete
MapDelete(map, key) == [k \in DOMAIN map \ {key} |-> map[k]]

\* registerModulePermissions(moduleName, permissions)
RegisterModulePermissions(moduleName, permissions) ==
  /\ modulePermissions' = MapSet(modulePermissions, moduleName, permissions)
  /\ UNCHANGED << globalAllowedModules, globalAllowedActions >>
  /\ UNCHANGED << auditVars, hostVars, taskVars >>

\* setGlobalAllowedModules(modules)
SetGlobalAllowedModules(modules) ==
  /\ globalAllowedModules' = Range(modules)
  /\ UNCHANGED << modulePermissions, globalAllowedActions >>
  /\ UNCHANGED << auditVars, hostVars, taskVars >>

\* setGlobalAllowedActions(actions)
SetGlobalAllowedActions(actions) ==
  /\ globalAllowedActions' = Range(actions)
  /\ UNCHANGED << modulePermissions, globalAllowedModules >>
  /\ UNCHANGED << auditVars, hostVars, taskVars >>

-----------------------------------------------------------------------------
(* AuditLogger: audit-log.ts                                               *)

\* The maximum the logger is constructed with (options.maxEntries).
MaxEntries == 2

Trim_KeepOldest(es) == IF Len(es) > MaxEntries THEN SubSeq(es, 1, MaxEntries) ELSE es

\* entries.slice(-maxEntries) once the length exceeds maxEntries
Trim(es) ==
  IF Len(es) > MaxEntries THEN SubSeq(es, Len(es) - MaxEntries + 1, Len(es)) ELSE es

LogAppend_NoArgs(es, id, caller, module, method, args, result, error, duration) ==
  Trim(Append(es, [id |-> id, caller |-> caller, module |-> module,
                   method |-> method, args |-> << >>, result |-> result,
                   error |-> error, duration |-> duration]))

\* A variant that puts the new entry before the stored ones
LogAppend_Front(es, id, caller, module, method, args, result, error, duration) ==
  Trim(<< [id |-> id, caller |-> caller, module |-> module,
           method |-> method, args |-> args, result |-> result,
           error |-> error, duration |-> duration] >> \o es)

\* The entries after log(caller, module, method, args, result, error, duration),
\* given that logging is enabled; id is the id generateId returned.
LogAppend(es, id, caller, module, method, args, result, error, duration) ==
  Trim(Append(es, [id |-> id, caller |-> caller, module |-> module,
                   method |-> method, args |-> args, result |-> result,
                   error |-> error, duration |-> duration]))

\* log(...) as a step: nothing when disabled
Log(caller, module, method, args, result, error, duration) ==
  IF enabled
  THEN /\ entries' = LogAppend(entries, nextId + 1, caller, module, method, args,
                               result, error, duration)
       /\ nextId' = nextId + 1
       /\ UNCHANGED enabled
  ELSE UNCHANGED auditVars

\* log(...) called on the logger alone
LogOperation(caller, module, method, args, result, error, duration) ==
  /\ Log(caller, module, method, args, result, error, duration)
  /\ UNCHANGED << permVars, hostVars, taskVars >>

\* setEnabled(enabled)
SetEnabled(b) ==
  /\ enabled' = b
  /\ UNCHANGED << entries, nextId >>
  /\ UNCHANGED << permVars, hostVars, taskVars >>

\* logStart(caller, module, method, args): an entry in progress is pushed,
\* without trimming; an id is generated also when logging is disabled
LogStart(t, caller, module, method, args) ==
  /\ nextId' = nextId + 1
  /\ entries' = IF enabled
                THEN Append(entries, [id |-> nextId + 1, caller |-> caller, module |-> module,
                                      method |-> method, args |-> args, result |-> Null,
                                      error |-> Null, duration |-> -1])
                ELSE entries
  /\ op' = [op EXCEPT ![t] = [kind |-> "logStart", status |-> "resolved", value |-> nextId + 1]]
  /\ UNCHANGED << enabled, permVars, hostVars, stack, emitted, loaderLog >>

\* logComplete(id, result, error), duration being Date.now() - entry.timestamp
LogComplete(t, id, result, error, duration) ==
  /\ entries' = IF enabled
                THEN [i \in 1..Len(entries) |->
                        IF entries[i].id = id
                        THEN [entries[i] EXCEPT !.result = result, !.error = error,
                                                !.duration = duration]
                        ELSE entries[i]]
                ELSE entries
  /\ op' = [op EXCEPT ![t] = [kind |-> "logComplete", status |-> "resolved", value |-> id]]
  /\ UNCHANGED << enabled, nextId, permVars, hostVars, stack, emitted, loaderLog >>

\* A number as the fraction num / den: avgDuration is no integer
Fraction(num, den) == [num |-> num, den |-> den]

\* moduleStats.calls++; errors++; and, if (entry.duration > 0),
\* avgDuration = (avgDuration * (calls - 1) + entry.duration) / calls
UpdatedStats(stats, entry) ==
  [calls |-> stats.calls + 1,
   errors |-> IF IsSome(entry.error) THEN stats.errors + 1 ELSE stats.errors,
   avgDuration |->
     IF entry.duration > 0
     THEN Fraction(stats.avgDuration.num * stats.calls + entry.duration * stats.avgDuration.den,
                   stats.avgDuration.den * (stats.calls + 1))
     ELSE stats.avgDuration]

\* getStats: for (const entry of this.entries), from the k-th entry
RECURSIVE StatsLoop(_, _, _)
StatsLoop(es, k, moduleStats) ==
  IF k > Len(es) THEN moduleStats
  ELSE StatsLoop(es, k + 1,
         MapSet(moduleStats, es[k].module,
                UpdatedStats(IF es[k].module \in DOMAIN moduleStats
                             THEN moduleStats[es[k].module]
                             ELSE [calls |-> 0, errors |-> 0, avgDuration |-> Fraction(0, 1)],
                             es[k])))

\* getStats()
GetStats(es) ==
  [totalCalls |-> Len(es),
   errorCount |-> Len(SelectSeq(es, LAMBDA e : IsSome(e.error))),
   moduleStats |-> StatsLoop(es, 1, << >>)]

\* getStats() called on the logger; the entries it read are kept beside
\* its answer
GetStatsOperation(t) ==
  /\ op' = [op EXCEPT ![t] = [kind |-> "getStats", status |-> "resolved",
                              entries |-> entries, value |-> GetStats(entries)]]
  /\ UNCHANGED << permVars, auditVars, hostVars, stack, emitted, loaderLog >>

-----------------------------------------------------------------------------
(* LiveSDKHost: livesdk-host.ts                                            *)
(*                                                                         *)
(* A RegistryEntry is [manifest, module, status, error, loadedAt]; a       *)
(* LoadedModule is [manifest, exports, api, ready].  The exports of a      *)
(* bundle are [api]: absent, or an object whose members are functions that *)
(* resolve ("resolves") or reject ("rejects") when called, or values that  *)
(* are no functions ("value").  A thrown value is [error, text]: the Error *)
(* object with that message (error = TRUE) or the bare string text.        *)

TaskIds == {1}

Err(text) == [error |-> TRUE, text |-> text]

\* error instanceof Error ? error.message : String(error)
MessageOf(e) == e.text

\* error instanceof Error ? error : new Error(String(error))
AsError(e) == IF e.error THEN e ELSE Err(e.text)

\* url.split('/') last part, .replace(/\.js$/, '').replace(/-mfe$/, '')
NameFromUrl(url) ==
  LET slash    == LastIndexFrom(url, "/", Len(url))
      filename == SliceFrom(url, slash)
      noJs     == IF EndsWith(filename, <<".", "j", "s">>)
                  THEN SubSeq(filename, 1, Len(filename) - 3) ELSE filename
  IN  IF EndsWith(noJs, <<"-", "m", "f", "e">>)
      THEN SubSeq(noJs, 1, Len(noJs) - 4) ELSE noJs

\* The manifest loadMFE works with (lines 510-532): the first registered one
\* with this url (the registered manifests have distinct urls here), or a
\* temporary one.
ManifestForUrl(url) ==
  IF \E n \in DOMAIN manifests : manifests[n].url = url
  THEN manifests[CHOOSE n \in DOMAIN manifests : manifests[n].url = url]
  ELSE [name |-> NameFromUrl(url), version |-> V000, url |-> url,
        dependencies |-> << >>, permissions |-> Null]

\* "Extract API if present" (lines 554-561): the function members of exports.api
ExtractApi(exports) ==
  IF IsSome(exports.api)
  THEN LET obj == Get(exports.api)
       IN  [k \in {j \in DOMAIN obj : obj[j] # "value"} |-> obj[k]]
  ELSE << >>

\* The names every object inherits a function for from Object.prototype.
ObjectPrototypeFunctions == {MToString}

\* api[method] of line 659, NULL when undefined
ApiMember(api, method) ==
  IF method \in DOMAIN api THEN Some(api[method])
  ELSE IF method \in ObjectPrototypeFunctions THEN Some("resolves")
  ELSE Null

HasConflicts_Never(resolution) == FALSE

\* resolution.conflicts.length > 0
HasConflicts(resolution) == Len(resolution.conflicts) > 0

\* The registry after "Update registry status" (lines 535-542)
MarkLoading(reg, manifest) ==
  MapSet(reg, manifest.name,
         [(IF manifest.name \in DOMAIN reg THEN reg[manifest.name]
           ELSE [manifest |-> manifest, module |-> Null, status |-> "pending",
                 error |-> Null, loadedAt |-> Null])
          EXCEPT !.status = "loading"])

\* "Get current loaded manifests" (lines 698-703)
LoadedManifests(reg) ==
  [n \in {n \in DOMAIN reg : reg[n].status = "loaded"} |-> reg[n].manifest]

\* The activation of loadMFE for manifest, at its first await
Frame(manifest, url) ==
  [manifest |-> manifest, url |-> url, pc |-> "awaitDeps",
   order |-> << >>, idx |-> 1, error |-> Null, satisfied |-> FALSE]

\* The conflict check of lines 711-717, and the dependency loop entered
Resolved(frame, resolution) ==
  IF HasConflicts(resolution)
  THEN [frame EXCEPT !.pc = "catch",
                     !.error = Some(Err(<<"Dependency conflicts", resolution.conflicts>>))]
  ELSE [frame EXCEPT !.pc = "loop", !.order = resolution.loadOrder]

\* The synchronous part of resolveDependencies (lines 691-720) for the
\* activation frame, with the registry reg
Resolving(reg, frame) ==
  IF Len(frame.manifest.dependencies) = 0 THEN frame
  ELSE IF AreDependenciesSatisfied(frame.manifest, LoadedManifests(reg))
  THEN [frame EXCEPT !.satisfied = TRUE]
  ELSE Resolved(frame, ResolveDependencies(<< frame.manifest >>, manifests))

\* loadMFE(url) to its first suspension, for the manifest it found: the
\* registry after it and the activation's frame.
BeginWith(reg, manifest, url) ==
  [reg |-> MarkLoading(reg, manifest),
   frame |-> Resolving(MarkLoading(reg, manifest), Frame(manifest, url))]

\* loadMFE(url) to its first suspension, with the registry reg
BeginLoad(reg, url) == BeginWith(reg, ManifestForUrl(url), url)

LoadsDependency_Never(reg, frame, depName) == FALSE

\* Whether the loop of lines 723-734 loads depName.
LoadsDependency(reg, frame, depName) ==
  /\ depName # frame.manifest.name
  /\ depName \in DOMAIN reg
  /\ reg[depName].status # "loaded"
  /\ depName \in DOMAIN manifests

\* The stack after the innermost activation called loadMFE, whose activation
\* is frame
Called(stk, frame) ==
  Append([stk EXCEPT ![Len(stk)].idx = @ + 1, ![Len(stk)].pc = "awaitChild"], frame)

\* The registry and the stack after the innermost activation called loadMFE
\* and that ran to its first suspension, b
Entered(s, b) == [reg |-> b.reg, stk |-> Called(s.stk, b.frame)]

\* The synchronous run of the innermost activation from its dependency loop
\* on: the loop skips what it does not load, calls loadMFE for the first
\* dependency it loads (whose own synchronous part runs at once), and
\* suspends; without one it returns.
RECURSIVE Descend(_)
Descend(s) ==
  IF s.stk[Len(s.stk)].pc # "loop" THEN s
  ELSE IF s.stk[Len(s.stk)].idx > Len(s.stk[Len(s.stk)].order)
  THEN [s EXCEPT !.stk[Len(s.stk)].pc = "awaitDeps"]
  ELSE IF ~LoadsDependency(s.reg, s.stk[Len(s.stk)],
                           s.stk[Len(s.stk)].order[s.stk[Len(s.stk)].idx])
  THEN Descend([s EXCEPT !.stk[Len(s.stk)].idx = @ + 1])
  ELSE Descend(Entered(s, BeginLoad(s.reg,
                 manifests[s.stk[Len(s.stk)].order[s.stk[Len(s.stk)].idx]].url)))

Quiescent == \A t \in TaskIds : op[t].status # "running"

\* A variant in which the dependency loop goes on after the loadMFE of a
\* dependency rejected
EndActivation_Swallows(t, status, value) ==
  LET rest == SubSeq(stack[t], 1, Len(stack[t]) - 1)
  IN  IF rest = << >>
      THEN /\ stack' = [stack EXCEPT ![t] = << >>]
           /\ op' = [op EXCEPT ![t].status = status, ![t].value = value]
      ELSE /\ stack' = [stack EXCEPT ![t] = [rest EXCEPT ![Len(rest)].pc = "loop"]]
           /\ UNCHANGED op

\* An activation ends: the caller of loadMFE gets its promise settled.  The
\* outermost one settles the operation; an inner one resumes the dependency
\* loop of the activation below it, or makes it fail.
EndActivation(t, status, value) ==
  LET rest == SubSeq(stack[t], 1, Len(stack[t]) - 1)
  IN  IF rest = << >>
      THEN /\ stack' = [stack EXCEPT ![t] = << >>]
           /\ op' = [op EXCEPT ![t].status = status, ![t].value = value]
      ELSE /\ stack' = [stack EXCEPT ![t] =
                 [rest EXCEPT ![Len(rest)].pc = IF status = "resolved" THEN "loop" ELSE "catch",
                              ![Len(rest)].error = IF status = "resolved" THEN Null ELSE Some(value)]]
           /\ UNCHANGED op

\* The registry entry after the catch block stored the failure e on it
FailedEntry_StatusKept(entry, e) == [entry EXCEPT !.error = Some(AsError(e))]

FailedEntry_Pending(entry, e) ==
  [entry EXCEPT !.status = "pending", !.error = Some(AsError(e))]

FailedEntry(entry, e) == [entry EXCEPT !.status = "error", !.error = Some(AsError(e))]

\* this.eventHandlers.get(type) || []
HandlersOf(type) == IF type \in DOMAIN eventHandlers THEN eventHandlers[type] ELSE << >>

\* handlers.indexOf(handler): the first place of the handler, 0 for -1
IndexOf(handlers, handler) ==
  IF \E i \in 1..Len(handlers) : handlers[i] = handler
  THEN CHOOSE i \in 1..Len(handlers) :
         /\ handlers[i] = handler
         /\ \A j \in 1..(i - 1) : handlers[j] # handler
  ELSE 0

\* handlers.splice(index, 1)
Splice(handlers, index) ==
  SubSeq(handlers, 1, index - 1) \o SubSeq(handlers, index + 1, Len(handlers))

\* What a handler does when it is called with an event: "throws" throws,
\* "unsubscribesItself" and "unsubscribesH1" call the unsubscribe function
\* that on returned for the event's type and the handler named, and every
\* other handler returns.
Throws(handler) == handler = "throws"

Unsubscribes(handler) ==
  IF handler = "unsubscribesItself" THEN Some(handler)
  ELSE IF handler = "unsubscribesH1" THEN Some("h1")
  ELSE Null

\* The array after the unsubscribe function for the handler ran on it
Unsubscribed(handlers, handler) ==
  IF IndexOf(handlers, handler) # 0 THEN Splice(handlers, IndexOf(handlers, handler))
  ELSE handlers

\* The unsubscribe functions after the one for type and handler was called:
\* the first of them not called before
CalledFor(hs, type, handler) ==
  LET live == { h \in 1..Len(hs) :
                  hs[h].type = type /\ hs[h].handler = handler /\ ~hs[h].called }
  IN  IF live = {} THEN hs
      ELSE [hs EXCEPT ![CHOOSE h \in live : \A g \in live : h <= g].called = TRUE]

\* One handler has been called: a throw is caught, and an unsubscribe
\* function it called has spliced the array that emit iterates
Handled(run, type, handler) ==
  [handlers |-> IF IsSome(Unsubscribes(handler))
                THEN Unsubscribed(run.handlers, Get(Unsubscribes(handler)))
                ELSE run.handlers,
   handles |-> IF IsSome(Unsubscribes(handler))
               THEN CalledFor(run.handles, type, Get(Unsubscribes(handler)))
               ELSE run.handles,
   invoked |-> Append(run.invoked, handler),
   caught |-> run.caught + (IF Throws(handler) THEN 1 ELSE 0)]

\* for (const handler of handlers) (lines 447-453): the array iterator reads
\* the array as it is when the place i is reached
RECURSIVE EmitLoop(_, _, _)
EmitLoop(run, type, i) ==
  IF i > Len(run.handlers) THEN run
  ELSE EmitLoop(Handled(run, type, run.handlers[i]), type, i + 1)

\* emit(type, payload) with the handlers of the type
Emit(type) ==
  EmitLoop([handlers |-> HandlersOf(type), handles |-> handles,
            invoked |-> << >>, caught |-> 0], type, 1)

\* emit(type, payload): the handlers invoked with the event, in their order
Invoked(type) == Emit(type).invoked

\* The subscriptions after the emit that left run
Emitted(type, run) ==
  /\ eventHandlers' = [eventHandlers EXCEPT ![type] = run.handlers]
  /\ handles' = run.handles
  /\ UNCHANGED llmConfig

\* emit(type, payload) as a part of the operation that emits
EmitToHandlers(type) ==
  IF HandlersOf(type) = << >> THEN UNCHANGED shellVars
  ELSE Emitted(type, Emit(type))

\* The catch block of loadMFE (lines 586-599) for the failure e
FailLoad(t, e) ==
  LET top == stack[t][Len(stack[t])]
      name == top.manifest.name
  IN  /\ registry' = [registry EXCEPT ![name] = FailedEntry(@, e)]
      /\ emitted' = [emitted EXCEPT ![t] = Append(@,
            [type |-> "module:error",
             payload |-> [name |-> name, url |-> top.url, error |-> MessageOf(AsError(e))]])]
      /\ EmitToHandlers("module:error")
      /\ EndActivation(t, "rejected", e)
      /\ UNCHANGED << manifests, apis >>

\* on(type, handler): the handler is pushed, and the unsubscribe function
\* returned closes over type and handler (lines 459-475)
On(t, type, handler) ==
  /\ op[t].status # "running"
  /\ eventHandlers' = MapSet(eventHandlers, type, Append(HandlersOf(type), handler))
  /\ handles' = Append(handles, [type |-> type, handler |-> handler, called |-> FALSE])
  /\ op' = [op EXCEPT ![t] = [kind |-> "on", status |-> "resolved",
                              handle |-> Len(handles) + 1]]
  /\ emitted' = [emitted EXCEPT ![t] = << >>]
  /\ loaderLog' = [loaderLog EXCEPT ![t] = << >>]
  /\ UNCHANGED << permVars, auditVars, manifests, registry, apis, llmConfig, stack >>

\* The unsubscribe function that on returned as handle h is called
Unsubscribe(t, h) ==
  /\ op[t].status # "running"
  /\ h \in 1..Len(handles)
  /\ eventHandlers' =
       IF /\ handles[h].type \in DOMAIN eventHandlers
          /\ IndexOf(eventHandlers[handles[h].type], handles[h].handler) # 0
       THEN [eventHandlers EXCEPT ![handles[h].type] =
               Splice(@, IndexOf(@, handles[h].handler))]
       ELSE eventHandlers
  /\ handles' = [handles EXCEPT ![h].called = TRUE]
  /\ op' = [op EXCEPT ![t] = [kind |-> "unsubscribe", status |-> "resolved", handle |-> h]]
  /\ emitted' = [emitted EXCEPT ![t] = << >>]
  /\ loaderLog' = [loaderLog EXCEPT ![t] = << >>]
  /\ UNCHANGED << permVars, auditVars, manifests, registry, apis, llmConfig, stack >>

\* A variant that creates the entry anew whenever a manifest is registered
RegisterModuleManifest_Resets(t, manifest) ==
  /\ manifests' = MapSet(manifests, manifest.name, manifest)
  /\ modulePermissions' =
       IF IsSome(manifest.permissions)
       THEN MapSet(modulePermissions, manifest.name, Get(manifest.permissions))
       ELSE modulePermissions
  /\ registry' = MapSet(registry, manifest.name,
                        [manifest |-> manifest, module |-> Null, status |-> "pending",
                         error |-> Null, loadedAt |-> Null])
  /\ op' = [op EXCEPT ![t] = [kind |-> "register", status |-> "resolved",
                              name |-> manifest.name]]
  /\ emitted' = [emitted EXCEPT ![t] = << >>]
  /\ loaderLog' = [loaderLog EXCEPT ![t] = << >>]
  /\ UNCHANGED << globalAllowedModules, globalAllowedActions, auditVars, apis, shellVars,
                  stack >>

\* registerModuleManifest(manifest)
RegisterModuleManifest(t, manifest) ==
  /\ manifests' = MapSet(manifests, manifest.name, manifest)
  /\ modulePermissions' =
       IF IsSome(manifest.permissions)
       THEN MapSet(modulePermissions, manifest.name, Get(manifest.permissions))
       ELSE modulePermissions
  /\ registry' =
       IF manifest.name \notin DOMAIN registry
       THEN MapSet(registry, manifest.name,
                   [manifest |-> manifest, module |-> Null, status |-> "pending",
                    error |-> Null, loadedAt |-> Null])
       ELSE [registry EXCEPT ![manifest.name].manifest = manifest]
  /\ op' = [op EXCEPT ![t] = [kind |-> "register", status |-> "resolved",
                              name |-> manifest.name]]
  /\ emitted' = [emitted EXCEPT ![t] = << >>]
  /\ loaderLog' = [loaderLog EXCEPT ![t] = << >>]
  /\ UNCHANGED << globalAllowedModules, globalAllowedActions, auditVars, apis, shellVars,
                  stack >>

\* The registry and the stack of a task whose loadMFE ran to its first
\* suspension, b
Started(b) == [reg |-> b.reg, stk |-> << b.frame >>]

\* loadMFE(url), to its first suspension
StartLoad(t, url) ==
  /\ op[t].status # "running"
  /\ \E d \in {Descend(Started(BeginLoad(registry, url)))} :
       /\ registry' = d.reg
       /\ stack' = [stack EXCEPT ![t] = d.stk]
       /\ op' = [op EXCEPT ![t] = [kind |-> "load", status |-> "running", url |-> url,
                                   name |-> d.stk[1].manifest.name, value |-> Null,
                                   satisfied |-> d.stk[1].satisfied]]
  /\ emitted' = [emitted EXCEPT ![t] = << >>]
  /\ loaderLog' = [loaderLog EXCEPT ![t] = << >>]
  /\ UNCHANGED << permVars, auditVars, manifests, apis, shellVars >>

\* loadMFE resumes after the loadMFE of a dependency resolved (line 731)
ResumeLoop(t) ==
  /\ stack[t] # << >>
  /\ stack[t][Len(stack[t])].pc = "loop"
  /\ \E d \in {Descend([reg |-> registry, stk |-> stack[t]])} :
       /\ registry' = d.reg
       /\ stack' = [stack EXCEPT ![t] = d.stk]
  /\ UNCHANGED << permVars, auditVars, manifests, apis, shellVars, op, emitted, loaderLog >>

\* A variant in which loadMFE does not go on after resolveDependencies
\* resolved
InvokeLoader_Stuck(t) ==
  /\ stack[t] # << >>
  /\ stack[t][Len(stack[t])].pc = "awaitDeps"
  /\ FALSE
  /\ UNCHANGED vars

\* loadMFE resumes after resolveDependencies resolved: importFn(url) (line 549)
InvokeLoader(t) ==
  /\ stack[t] # << >>
  /\ stack[t][Len(stack[t])].pc = "awaitDeps"
  /\ stack' = [stack EXCEPT ![t][Len(stack[t])].pc = "importing"]
  /\ loaderLog' = [loaderLog EXCEPT ![t] = Append(@,
        [ev |-> "invoke", name |-> stack[t][Len(stack[t])].manifest.name,
         url |-> stack[t][Len(stack[t])].url])]
  /\ UNCHANGED << permVars, auditVars, hostVars, op, emitted >>

\* importFn(url) resolved with exports: lines 551-585
LoaderResolved(t, exports) ==
  /\ stack[t] # << >>
  /\ stack[t][Len(stack[t])].pc = "importing"
  /\ LET top == stack[t][Len(stack[t])]
         name == top.manifest.name
         api == ExtractApi(exports)
         loadedModule == [manifest |-> top.manifest, exports |-> exports,
                          api |-> api, ready |-> FALSE]
     IN  /\ apis' = IF DOMAIN api # {} THEN MapSet(apis, name, api) ELSE apis
         /\ registry' = [registry EXCEPT ![name].module = Some(loadedModule),
                                         ![name].status = "loaded",
                                         ![name].loadedAt = Some("now")]
         /\ emitted' = [emitted EXCEPT ![t] = Append(@,
               [type |-> "module:loaded", payload |-> [name |-> name, url |-> top.url]])]
         /\ loaderLog' = [loaderLog EXCEPT ![t] = Append(@,
               [ev |-> "resolved", name |-> name, url |-> top.url])]
         /\ EmitToHandlers("module:loaded")
         /\ EndActivation(t, "resolved", loadedModule)
  /\ UNCHANGED << permVars, auditVars, manifests >>

\* importFn(url) rejected with e: the catch block
LoaderRejected(t, e) ==
  /\ stack[t] # << >>
  /\ stack[t][Len(stack[t])].pc = "importing"
  /\ loaderLog' = [loaderLog EXCEPT ![t] = Append(@,
        [ev |-> "rejected", name |-> stack[t][Len(stack[t])].manifest.name,
         url |-> stack[t][Len(stack[t])].url, error |-> e])]
  /\ FailLoad(t, e)
  /\ UNCHANGED << permVars, auditVars >>

\* resolveDependencies rejected (a conflict, or the loadMFE of a dependency
\* rejected): the catch block
DependenciesRejected(t) ==
  /\ stack[t] # << >>
  /\ stack[t][Len(stack[t])].pc = "catch"
  /\ FailLoad(t, Get(stack[t][Len(stack[t])].error))
  /\ UNCHANGED << permVars, auditVars, loaderLog >>

\* A variant that creates a pending entry for a name the registry lacks
UnloadMFE_Creates(t, moduleName) ==
  /\ registry' = IF moduleName \in DOMAIN registry
                 THEN [registry EXCEPT ![moduleName].module = Null,
                                       ![moduleName].status = "pending",
                                       ![moduleName].loadedAt = Null]
                 ELSE MapSet(registry, moduleName,
                             [manifest |-> Null, module |-> Null, status |-> "pending",
                              error |-> Null, loadedAt |-> Null])
  /\ apis' = MapDelete(apis, moduleName)
  /\ emitted' = [emitted EXCEPT ![t] =
        << [type |-> "module:unloaded", payload |-> [name |-> moduleName]] >>]
  /\ op' = [op EXCEPT ![t] = [kind |-> "unload", status |-> "resolved",
                              name |-> moduleName]]
  /\ EmitToHandlers("module:unloaded")
  /\ loaderLog' = [loaderLog EXCEPT ![t] = << >>]
  /\ UNCHANGED << permVars, auditVars, manifests, stack >>

\* unloadMFE(moduleName)
UnloadMFE(t, moduleName) ==
  /\ registry' = IF moduleName \in DOMAIN registry
                 THEN [registry EXCEPT ![moduleName].module = Null,
                                       ![moduleName].status = "pending",
                                       ![moduleName].loadedAt = Null]
                 ELSE registry
  /\ apis' = MapDelete(apis, moduleName)
  /\ emitted' = [emitted EXCEPT ![t] =
        << [type |-> "module:unloaded", payload |-> [name |-> moduleName]] >>]
  /\ op' = [op EXCEPT ![t] = [kind |-> "unload", status |-> "resolved",
                              name |-> moduleName]]
  /\ EmitToHandlers("module:unloaded")
  /\ loaderLog' = [loaderLog EXCEPT ![t] = << >>]
  /\ UNCHANGED << permVars, auditVars, manifests, stack >>

\* registerAPI(moduleName, apiObj)
RegisterAPI(t, moduleName, apiObj) ==
  /\ apis' = MapSet(apis, moduleName, apiObj)
  /\ op' = [op EXCEPT ![t] = [kind |-> "registerAPI", status |-> "resolved",
                              name |-> moduleName]]
  /\ emitted' = [emitted EXCEPT ![t] = << >>]
  /\ loaderLog' = [loaderLog EXCEPT ![t] = << >>]
  /\ UNCHANGED << permVars, auditVars, manifests, registry, shellVars, stack >>

DenialError_Generic(permissionCheck) == Err(<<"Permission denied">>)

\* new Error(permissionCheck.reason || 'Permission denied')
DenialError(permissionCheck) ==
  Err(IF IsSome(permissionCheck.reason)
      THEN Get(permissionCheck.reason) ELSE <<"Permission denied">>)

\* new Error(`Module '${moduleName}' not found or has no API registered`)
TargetNotFound(moduleName) ==
  Err(<<"Module '", moduleName, "' not found or has no API registered">>)

\* new Error(`Method '${method}' not found in module '${moduleName}'`)
MethodNotFound(moduleName, method) ==
  Err(<<"Method '", method, "' not found in module '", moduleName, "'">>)

MethodMissing_Undefined(api, method) == ~IsSome(ApiMember(api, method))

\* !fn || typeof fn !== 'function' for fn = api[method]
MethodMissing(api, method) ==
  \/ ~IsSome(ApiMember(api, method))
  \/ Get(ApiMember(api, method)) = "value"

\* The body of call for the request [kind, module, method, args, caller], to
\* the invocation of the method (lines 641-669): a failure before it is
\* logged and thrown at once.
Dispatch(t, request) ==
  LET permissionCheck == CanCallModule(request.caller, request.module, request.method)
      fails(e) ==
        /\ Log(request.caller, request.module, request.method, request.args,
               Null, Some(MessageOf(e)), 0)
        /\ op' = [op EXCEPT ![t] = request @@
                    [status |-> "rejected", value |-> e, invoked |-> FALSE, fn |-> Null]]
  IN  /\ op[t].status # "running"
      /\ IF ~permissionCheck.allowed
         THEN fails(DenialError(permissionCheck))
         ELSE IF request.module \notin DOMAIN apis
         THEN fails(TargetNotFound(request.module))
         ELSE IF MethodMissing(apis[request.module], request.method)
         THEN fails(MethodNotFound(request.module, request.method))
         ELSE /\ op' = [op EXCEPT ![t] = request @@
                          [status |-> "running", value |-> Null, invoked |-> TRUE,
                           fn |-> ApiMember(apis[request.module], request.method)]]
              /\ UNCHANGED auditVars
      /\ emitted' = [emitted EXCEPT ![t] = << >>]
      /\ loaderLog' = [loaderLog EXCEPT ![t] = << >>]
      /\ UNCHANGED << permVars, hostVars, stack >>

\* call(moduleName, method, args, caller)
StartCall(t, moduleName, method, args, caller) ==
  Dispatch(t, [kind |-> "call", module |-> moduleName, method |-> method,
               args |-> args, caller |-> caller])

\* LiveSDKClient.call(moduleName, method, args) of the MFE client, with the
\* shell's bridge as its host: the bridge's call passes the three arguments
\* on to host.call, whose caller parameter takes its default 'shell'.  The
\* request keeps the calling MFE beside it.
ClientCall(t, client, moduleName, method, args) ==
  Dispatch(t, [kind |-> "call", module |-> moduleName, method |-> method,
               args |-> args, caller |-> Shell, client |-> client])

\* The method's promise resolved after duration ms: lines 670-675
CallResolved(t, duration) ==
  /\ op[t].kind = "call" /\ op[t].status = "running"
  /\ op[t].fn = Some("resolves")
  /\ LET result == <<"result of ", op[t].method>>
     IN  /\ Log(op[t].caller, op[t].module, op[t].method, op[t].args,
                Some(result), Null, duration)
         /\ emitted' = [emitted EXCEPT ![t] = Append(@,
               [type |-> "api:result",
                payload |-> [module |-> op[t].module, method |-> op[t].method,
                             result |-> Some(result), error |-> Null,
                             duration |-> duration]])]
         /\ EmitToHandlers("api:result")
         /\ op' = [op EXCEPT ![t].status = "resolved", ![t].value = result]
  /\ UNCHANGED << permVars, manifests, registry, apis, stack, loaderLog >>

\* The method threw or its promise rejected with e after duration ms: lines 676-684
CallRejected(t, e, duration) ==
  /\ op[t].kind = "call" /\ op[t].status = "running"
  /\ op[t].fn = Some("rejects")
  /\ Log(op[t].caller, op[t].module, op[t].method, op[t].args,
         Null, Some(MessageOf(e)), duration)
  /\ emitted' = [emitted EXCEPT ![t] = Append(@,
        [type |-> "api:result",
         payload |-> [module |-> op[t].module, method |-> op[t].method,
                      result |-> Null, error |-> Some(MessageOf(e)),
                      duration |-> duration]])]
  /\ EmitToHandlers("api:result")
  /\ op' = [op EXCEPT ![t].status = "rejected", ![t].value = e]
  /\ UNCHANGED << permVars, manifests, registry, apis, stack, loaderLog >>

-----------------------------------------------------------------------------
(* AIBridge.executePlan: ai-bridge.ts                                      *)
(*                                                                         *)
(* An ActionStep is [id, module, method, args, waitFor], waitFor optional; *)
(* an ActionResult is [stepId, success, result, error, duration].  The     *)
(* task that executes a plan keeps the plan, the results so far and the    *)
(* index of the step whose call it awaits beside that call.                *)

Halts_Always(step) == TRUE

\* if (step.waitFor)
Halts(step) == step.waitFor = Some(TRUE)

\* this.host.call(step.module, step.method, step.args) for step k of plan:
\* the caller is the host's default, 'shell'
StepRequest(plan, results, k) ==
  [kind |-> "call", module |-> plan[k].module, method |-> plan[k].method,
   args |-> plan[k].args, caller |-> Shell,
   plan |-> plan, results |-> results, step |-> k]

\* The task executes a plan and the call of its current step has settled
StepSettled(t) ==
  /\ op[t].kind = "call"
  /\ "plan" \in DOMAIN op[t]
  /\ op[t].status \in { "resolved", "rejected" }

\* The time the settled call took, which the step is taken to have taken
StepDuration(t) ==
  IF emitted[t] = << >> THEN 0 ELSE emitted[t][Len(emitted[t])].payload.duration

\* results.push({stepId, success, result | error, duration}) (lines 680-699)
StepResult(t) ==
  [stepId |-> op[t].plan[op[t].step].id,
   success |-> op[t].status = "resolved",
   result |-> IF op[t].status = "resolved" THEN Some(op[t].value) ELSE Null,
   error |-> IF op[t].status = "resolved" THEN Null ELSE Some(MessageOf(op[t].value)),
   duration |-> StepDuration(t)]

\* return results
PlanReturns(t, plan, results) ==
  /\ op' = [op EXCEPT ![t] = [kind |-> "plan", status |-> "resolved",
                              plan |-> plan, results |-> results]]
  /\ UNCHANGED << permVars, auditVars, hostVars, stack, emitted, loaderLog >>

\* executePlan(plan), to the call of the first step
StartPlan(t, plan) ==
  /\ op[t].status # "running"
  /\ IF plan = << >> THEN PlanReturns(t, plan, << >>)
     ELSE Dispatch(t, StepRequest(plan, << >>, 1))

\* A variant that lets the failure of a step escape: no catch
ContinuePlan_Propagates(t) ==
  /\ StepSettled(t)
  /\ IF op[t].status = "rejected"
     THEN /\ op' = [op EXCEPT ![t] = [kind |-> "plan", status |-> "rejected",
                                      plan |-> op[t].plan, results |-> op[t].results]]
          /\ UNCHANGED << permVars, auditVars, hostVars, stack, emitted, loaderLog >>
     ELSE IF op[t].step = Len(op[t].plan)
     THEN PlanReturns(t, op[t].plan, Append(op[t].results, StepResult(t)))
     ELSE Dispatch(t, StepRequest(op[t].plan, Append(op[t].results, StepResult(t)),
                                  op[t].step + 1))

\* A variant that does not await the call of the last step
ContinuePlan_Unawaited(t) ==
  /\ op[t].kind = "call"
  /\ "plan" \in DOMAIN op[t]
  /\ IF op[t].status = "running"
     THEN /\ op[t].step = Len(op[t].plan)
          /\ PlanReturns(t, op[t].plan, op[t].results)
     ELSE IF \/ op[t].status = "rejected" /\ Halts(op[t].plan[op[t].step])
             \/ op[t].step = Len(op[t].plan)
     THEN PlanReturns(t, op[t].plan, Append(op[t].results, StepResult(t)))
     ELSE Dispatch(t, StepRequest(op[t].plan, Append(op[t].results, StepResult(t)),
                                  op[t].step + 1))

\* The call of the current step settled: its result is pushed, and the loop
\* ends after a failed step that halts and after the last step, and calls
\* the next step otherwise (lines 672-706)
ContinuePlan(t) ==
  /\ StepSettled(t)
  /\ IF \/ op[t].status = "rejected" /\ Halts(op[t].plan[op[t].step])
        \/ op[t].step = Len(op[t].plan)
     THEN PlanReturns(t, op[t].plan, Append(op[t].results, StepResult(t)))
     ELSE Dispatch(t, StepRequest(op[t].plan, Append(op[t].results, StepResult(t)),
                                  op[t].step + 1))

-----------------------------------------------------------------------------
(* AIBridge.processIntent (src/unnamed/part_003 lines 489-560)             *)
(*                                                                         *)
(* An intent is the sequence of its words, in lower case and separated by  *)
(* single blanks; a word in Cyrillic is written in Latin letters. A        *)
(* pattern is the list of the word sequences its regular expression        *)
(* admits, the optional parts expanded in the order in which the regular   *)
(* expression tries them, with the length of the expression's source.      *)

\* (\d+)
NumberWords == { "5", "12" }

\* A number and a string among the arguments of a step
JsNumber(n) == [number |-> n]

JsString(x) == [string |-> x]

\* parseInt(match[1], 10)
NumberOf(w) == JsNumber(IF w = "5" THEN 5 ELSE 12)

\* The words of the intents that \w+ matches: those in Latin letters
AsciiWords ==
  NumberWords \cup
  { "open", "show", "order", "the", "and", "mark", "it", "as", "done", "set", "status",
    "to", "analytics", "login", "logout", "with", "password", "bob", "hello" }

Lit(S) == [words |-> S, cap |-> 0]

Digits1 == [words |-> NumberWords, cap |-> 1]

Word(c) == [words |-> AsciiWords, cap |-> c]

OpenVerbs == Lit({ "open", "show", "display", "view" })

\* Either of two sequences, the first tried first
Opt(e, rest) == << << e >> \o rest, rest >>

\* Every sequence of heads before every sequence of tails
RECURSIVE Cross(_, _)
Cross(heads, tails) ==
  IF heads = << >> THEN << >>
  ELSE [k \in 1..Len(tails) |-> Head(heads) \o tails[k]] \o Cross(Tail(heads), tails)

\* (?:open|show|display|view)\s+(?:order|the order)\s+(?:#)?(\d+)
OpenOrderAlts ==
  Cross(<< << OpenVerbs >> >>, Opt(Lit({ "the" }), << Lit({ "order" }), Digits1 >>))

\* (?:set\s+status\s+(?:to|as)|mark\s+(?:order\s+)?(?:as|to))\s+['"]?(\w+)['"]?
SetStatusAlts ==
  << << Lit({ "set" }), Lit({ "status" }), Lit({ "to", "as" }), Word(1) >> >>
    \o Cross(<< << Lit({ "mark" }) >> >>,
             Opt(Lit({ "order" }), << Lit({ "as", "to" }), Word(1) >>))

\* (?:get|show|display|view)\s+(?:the\s+)?(?:analytics|summary|dashboard|stats)
AnalyticsAlts ==
  Cross(<< << Lit({ "get", "show", "display", "view" }) >> >>,
        Opt(Lit({ "the" }), << Lit({ "analytics", "summary", "dashboard", "stats" }) >>))

\* (?:\s+(?:with\s+password\s+)?['"]?(\w+)['"]?)?
PasswordAlts == << << Lit({ "with" }), Lit({ "password" }), Word(2) >>, << Word(2) >>, << >> >>

\* (?:login|authenticate|sign\s*in)(?:\s+(?:as\s+)?['"]?(\w+)['"]?)?(?:...)?
LoginAlts ==
  Cross(<< << Lit({ "login", "authenticate", "signin" }) >> >>,
        Cross(<< << Lit({ "as" }), Word(1) >>, << Word(1) >> >>, PasswordAlts)
          \o << << >> >>)

\* (?:logout|sign\s*out|log\s*out)
LogoutAlts ==
  << << Lit({ "logout", "signout" }) >>, << Lit({ "sign", "log" }), Lit({ "out" }) >> >>

StatusWord == [words |-> AsciiWords, cap |-> 2]

\* (?:open|show)\s+(?:order|the order)\s+(?:#)?(\d+)\s+(?:and|then)\s+(?:set|mark)
\* \s+(?:it\s+)?(?:as|to|status\s+(?:to|as))\s+['"]?(\w+)['"]?
OpenAndMarkAlts ==
  Cross(Cross(<< << Lit({ "open", "show" }) >> >>,
              Opt(Lit({ "the" }),
                  << Lit({ "order" }), Digits1, Lit({ "and", "then" }), Lit({ "set", "mark" }) >>)),
        Cross(<< << Lit({ "it" }) >>, << >> >>,
              << << Lit({ "as", "to" }), StatusWord >>,
                 << Lit({ "status" }), Lit({ "to", "as" }), StatusWord >> >>))

\* (?:otkroj|pokazhi|otobrazi)\s+(?:zakaz)\s+(?:#)?(\d+)
OtkrojZakazAlts ==
  << << Lit({ "otkroj", "pokazhi", "otobrazi" }), Lit({ "zakaz" }), Digits1 >> >>

\* (?:otkroj|pokazhi)\s+(?:zakaz)\s+(?:#)?(\d+)\s+(?:i|zatem)
\* \s+(?:pomet|ustanovi|postav)\s+(?:kak|status)\s+['"]?(\w+)['"]?
OtkrojIPometAlts ==
  << << Lit({ "otkroj", "pokazhi" }), Lit({ "zakaz" }), Digits1, Lit({ "i", "zatem" }),
        Lit({ "pomet", "ustanovi", "postav" }), Lit({ "kak", "status" }), StatusWord >> >>

\* (?:pokazhi|otobrazi|poluchi)\s+(?:analitiku|statistiku|dashbord)
AnalitikaAlts ==
  << << Lit({ "pokazhi", "otobrazi", "poluchi" }),
        Lit({ "analitiku", "statistiku", "dashbord" }) >> >>

\* this.patterns after initializePatterns (lines 252-476), in the order of
\* the pushes: the admitted sequences, pattern.regex.source.length, and the
\* handler
Patterns ==
  << [alts |-> OpenOrderAlts, length |-> 62, handler |-> "openOrder"],
     [alts |-> SetStatusAlts, length |-> 76, handler |-> "setStatus"],
     [alts |-> AnalyticsAlts, length |-> 76, handler |-> "getSummary"],
     [alts |-> LoginAlts, length |-> 111, handler |-> "login"],
     [alts |-> LogoutAlts, length |-> 31, handler |-> "logout"],
     [alts |-> OpenAndMarkAlts, length |-> 138, handler |-> "openAndMark"],
     [alts |-> OtkrojZakazAlts, length |-> 52, handler |-> "openOrder"],
     [alts |-> OtkrojIPometAlts, length |-> 122, handler |-> "openAndMark"],
     [alts |-> AnalitikaAlts, length |-> 61, handler |-> "getSummary"] >>

\* The sequence alt is found in intent at word i
AltAt(intent, i, alt) ==
  /\ i + Len(alt) - 1 <= Len(intent)
  /\ \A k \in 1..Len(alt) : intent[i + k - 1] \in alt[k].words

\* intent.match(pattern.regex): the leftmost place where one of the
\* sequences is found, and the first sequence found there; Null for null
Match(intent, alts) ==
  LET places == { i \in 1..Len(intent) : \E a \in 1..Len(alts) : AltAt(intent, i, alts[a]) }
  IN  IF places = {} THEN Null
      ELSE LET i == CHOOSE x \in places : \A y \in places : x <= y
               a == CHOOSE x \in 1..Len(alts) :
                      /\ AltAt(intent, i, alts[x])
                      /\ \A y \in 1..(x - 1) : ~AltAt(intent, i, alts[y])
           IN  Some([at |-> i, alt |-> alts[a]])

\* match[c]: the word the group c captured, if the group took part
Group(intent, m, c) ==
  LET ks == { k \in 1..Len(m.alt) : m.alt[k].cap = c }
  IN  IF ks = {} THEN Null ELSE Some(intent[m.at + (CHOOSE k \in ks : TRUE) - 1])

\* context.hasModule(name): manifests.some((m) => m.name === name)
HasModule(name) == \E k \in DOMAIN manifests : manifests[k].name = name

Step(id, moduleName, method, args) ==
  [id |-> id, module |-> moduleName, method |-> method, args |-> args, waitFor |-> Some(TRUE)]

\* if (ctx.hasModule('auth')) steps.push({... 'ensureAuthenticated' ...})
EnsureAuth ==
  IF HasModule(AU) THEN << Step(1, AU, "ensureAuthenticated", << >>) >> ELSE << >>

\* pattern.handler(match, context), by the name of the handler
Handler(name, intent, m) ==
  CASE name = "openOrder" ->
         Append(EnsureAuth, Step(Len(EnsureAuth) + 1, ORD, "openOrder",
                                 << NumberOf(Get(Group(intent, m, 1))) >>))
    [] name = "openAndMark" ->
         EnsureAuth \o
           << Step(Len(EnsureAuth) + 1, ORD, "openOrder", << NumberOf(Get(Group(intent, m, 1))) >>),
              Step(Len(EnsureAuth) + 2, ORD, "setStatus", << JsString(Get(Group(intent, m, 2))) >>) >>
    [] name = "setStatus" -> << Step(1, ORD, "setStatus", << JsString(Get(Group(intent, m, 1))) >>) >>
    [] name = "getSummary" -> << Step(1, AN, "getSummary", << >>) >>
    [] name = "login" ->
         << Step(1, AU, "login",
                 << JsString(IF IsSome(Group(intent, m, 1)) THEN Get(Group(intent, m, 1))
                             ELSE "user"),
                    JsString(IF IsSome(Group(intent, m, 2)) THEN Get(Group(intent, m, 2))
                             ELSE "password") >>) >>
    [] name = "logout" -> << Step(1, AU, "logout", << >>) >>

\* The place of pattern p among the patterns acc sorted so far: before the
\* first that is shorter (Array.prototype.sort is stable)
RECURSIVE Inserted(_, _, _)
Inserted(patterns, acc, p) ==
  IF acc = << >> THEN << p >>
  ELSE IF patterns[Head(acc)].length < patterns[p].length THEN << p >> \o acc
  ELSE << Head(acc) >> \o Inserted(patterns, Tail(acc), p)

\* [...this.patterns].sort((a, b) => b.regex.source.length - a.regex.source.length),
\* as the indices of the patterns
RECURSIVE SortedFrom(_, _, _)
SortedFrom(patterns, acc, p) ==
  IF p > Len(patterns) THEN acc
  ELSE SortedFrom(patterns, Inserted(patterns, acc, p), p + 1)

\* A variant that tries the patterns in the order of their registration
SortedPatterns_Unsorted == [p \in 1..Len(Patterns) |-> p]

SortedPatterns == SortedFrom(Patterns, << >>, 1)

\* steps.filter((step) => context.hasModule(step.module))
ValidSteps(steps) == SelectSeq(steps, LAMBDA step : HasModule(step.module))

\* The steps the handler of pattern p gives for an intent it matches
StepsOf(p, intent) == Handler(Patterns[p].handler, intent, Get(Match(intent, Patterns[p].alts)))

\* processWithRules: for (const pattern of sortedPatterns), from the k-th
RECURSIVE RuleLoop(_, _, _)
RuleLoop(intent, sorted, k) ==
  IF k > Len(sorted) THEN << >>
  ELSE IF /\ IsSome(Match(intent, Patterns[sorted[k]].alts))
          /\ Len(ValidSteps(StepsOf(sorted[k], intent))) = Len(StepsOf(sorted[k], intent))
       THEN ValidSteps(StepsOf(sorted[k], intent))
       ELSE RuleLoop(intent, sorted, k + 1)

ProcessWithRules(intent) == RuleLoop(intent, SortedPatterns, 1)

\* The IntentResult, without its texts
IntentResult(success, plan) == [success |-> success, plan |-> plan]

\* processIntent returns
IntentReturns(t, intent, llm, result) ==
  /\ op' = [op EXCEPT ![t] = [kind |-> "intent", status |-> "resolved", intent |-> intent,
                              llm |-> llm, value |-> Some(result)]]
  /\ UNCHANGED << permVars, auditVars, hostVars, stack, emitted, loaderLog >>

\* processIntent(intent), to its return or to the await of processWithLLM
ProcessIntent(t, intent) ==
  /\ op[t].status # "running"
  /\ IF Len(ProcessWithRules(intent)) > 0
     THEN IntentReturns(t, intent, FALSE, IntentResult(TRUE, ProcessWithRules(intent)))
     ELSE IF IsSome(llmConfig)
     THEN /\ op' = [op EXCEPT ![t] = [kind |-> "intent", status |-> "running",
                                      intent |-> intent, llm |-> TRUE, value |-> Null]]
          /\ UNCHANGED << permVars, auditVars, hostVars, stack, emitted, loaderLog >>
     ELSE IntentReturns(t, intent, FALSE, IntentResult(FALSE, << >>))

\* processWithLLM resolved with llmPlan (lines 507-515)
LLMResolved(t, llmPlan) ==
  /\ op[t].kind = "intent" /\ op[t].status = "running"
  /\ IF Len(llmPlan) > 0
     THEN IntentReturns(t, op[t].intent, TRUE, IntentResult(TRUE, llmPlan))
     ELSE IntentReturns(t, op[t].intent, TRUE, IntentResult(FALSE, << >>))

\* processWithLLM rejected: the catch logs, and the intent is not understood
LLMRejected(t) ==
  /\ op[t].kind = "intent" /\ op[t].status = "running"
  /\ IntentReturns(t, op[t].intent, TRUE, IntentResult(FALSE, << >>))

\* configureLLM(config)
ConfigureLLM(t, config) ==
  /\ op[t].status # "running"
  /\ llmConfig' = Some(config)
  /\ op' = [op EXCEPT ![t] = [kind |-> "configureLLM", status |-> "resolved"]]
  /\ UNCHANGED << permVars, auditVars, manifests, registry, apis, eventHandlers, handles,
                  stack, emitted, loaderLog >>

-----------------------------------------------------------------------------
(* The inputs of the specifications                                        *)

Dep(name, range) == name \o <<"@">> \o range

Caret(v) == <<"^">> \o v

NoPermissions == Null

\* orders may call every module whose name starts with 'a', and only 'get'
OrdPermissions ==
  Some([allowedModules |-> Some(<< <<"a", "*">> >>), allowedActions |-> Some(<< MGet >>),
        requiresAuth |-> Some(TRUE)])

\* analytics may call auth only
AnPermissions ==
  Some([allowedModules |-> Some(<< AU >>), allowedActions |-> Null, requiresAuth |-> Null])

Manifest(name, version, dependencies, permissions) ==
  [name |-> name, version |-> version, url |-> UrlOf(name),
   dependencies |-> dependencies, permissions |-> permissions]

Auth100 == Manifest(AU, V100, << >>, NoPermissions)

Auth050 == Manifest(AU, V050, << >>, NoPermissions)

Orders == Manifest(ORD, V100, << Dep(AU, Caret(V100)) >>, OrdPermissions)

Analytics == Manifest(AN, V100, << ORD >>, AnPermissions)

\* auth in two versions, orders that needs auth@^1.0.0, analytics that needs
\* orders in any version
ManifestPool == { Auth100, Auth050, Orders, Analytics }

\* What importFn may resolve with: a bundle with an api object (two
\* functions and a value that is no function), and one without api.
ExportsPool ==
  { [api |-> Some((MGet :> "resolves") @@ (MSet :> "rejects") @@ (MNone :> "value"))],
    [api |-> Null] }

\* What importFn or an API method may reject with: an Error, or a bare string.
Failures == { Err(<< "Load failed" >>), [error |-> FALSE, text |-> << "boom" >>] }

\* What registerAPI is called with
ApiPool == { (MGet :> "resolves") @@ (MNone :> "value") }

\* The calls of the call specification: every method of auth, and one of
\* orders, which is never loaded
CallMethods == { MGet, MSet, MNone, MToString }

CallPool == { << AU, m >> : m \in CallMethods } \cup { << ORD, MGet >> }

CallArgs == { << >>, << "x" >> }

Callers == { Shell, ORD }

\* The longest a called method takes, in ms
MaxDuration == 1

\* The operations issued to a host in the lifecycle specification
MaxOps == 6

\* The operations issued to a host in the call specification
MaxCallOps == 3

-----------------------------------------------------------------------------
Init ==
  /\ modulePermissions = << >>
  /\ globalAllowedModules = {}
  /\ globalAllowedActions = {<<"r", "e", "a", "d">>, <<"e", "m", "i", "t">>, <<"o", "n">>}
  /\ entries = << >>
  /\ enabled = TRUE
  /\ nextId = 0
  /\ manifests = << >>
  /\ registry = << >>
  /\ apis = << >>
  /\ eventHandlers = << >>
  /\ handles = << >>
  /\ llmConfig = Null
  /\ op = [t \in TaskIds |-> [kind |-> "none", status |-> "idle"]]
  /\ stack = [t \in TaskIds |-> << >>]
  /\ emitted = [t \in TaskIds |-> << >>]
  /\ loaderLog = [t \in TaskIds |-> << >>]
  /\ issued = 0

\* The steps of a loadMFE in progress
LoadStep(t) ==
  \/ ResumeLoop(t)
  \/ InvokeLoader(t)
  \/ \E exports \in ExportsPool : LoaderResolved(t, exports)
  \/ \E e \in Failures : LoaderRejected(t, e)
  \/ DependenciesRejected(t)

\* Sequential use of one host: an operation is issued when the one before
\* it has settled, and at most max operations are.
Issue(max) == Quiescent /\ issued < max /\ issued' = issued + 1

\* The lifecycle of the modules: manifests are registered, modules loaded
\* and unloaded.
Next ==
  \E t \in TaskIds :
    \/ Issue(MaxOps) /\ \E m \in ManifestPool : RegisterModuleManifest(t, m)
    \/ Issue(MaxOps) /\ \E url \in Urls : StartLoad(t, url)
    \/ Issue(MaxOps) /\ \E n \in Names : UnloadMFE(t, n)
    \/ LoadStep(t) /\ UNCHANGED issued

Spec == Init /\ [][Next]_vars

\* The steps of a call in progress
CallStep(t) ==
  \/ \E d \in 0..MaxDuration : CallResolved(t, d)
  \/ \E e \in Failures, d \in 0..MaxDuration : CallRejected(t, e, d)

\* The dispatch of calls: auth is loaded, unloaded and given an API, orders
\* is registered with its permissions, auditing is switched, and the shell
\* and orders call.
NextCall ==
  \E t \in TaskIds :
    \/ Issue(MaxCallOps) /\ RegisterModuleManifest(t, Orders)
    \/ Issue(MaxCallOps) /\ StartLoad(t, UrlOf(AU))
    \/ Issue(MaxCallOps) /\ UnloadMFE(t, AU)
    \/ Issue(MaxCallOps) /\ \E api \in ApiPool : RegisterAPI(t, AU, api)
    \/ Quiescent /\ \E b \in BOOLEAN : SetEnabled(b) /\ UNCHANGED issued
    \/ Issue(MaxCallOps) /\ \E nm \in CallPool, a \in CallArgs, c \in Callers :
                               StartCall(t, nm[1], nm[2], a, c)
    \/ LoadStep(t) /\ UNCHANGED issued
    \/ CallStep(t) /\ UNCHANGED issued

SpecCall == Init /\ [][NextCall]_vars

\* The configurations registerModulePermissions is called with: those of
\* orders and analytics, one that allows nothing, and one without any list
DenyAll == [allowedModules |-> Some(<< >>), allowedActions |-> Some(<< >>), requiresAuth |-> Null]

Unrestricted == [allowedModules |-> Null, allowedActions |-> Null, requiresAuth |-> Null]

\* every module, and of the actions only 'au.get'
AnyModule ==
  [allowedModules |-> Some(<< <<"*">> >>),
   allowedActions |-> Some(<< AU \o <<".">> \o MGet >>), requiresAuth |-> Null]

\* orders only, and every action
AnyAction ==
  [allowedModules |-> Some(<< ORD >>), allowedActions |-> Some(<< <<"*">> >>),
   requiresAuth |-> Null]

PermissionsPool ==
  { Get(OrdPermissions), Get(AnPermissions), DenyAll, Unrestricted, AnyModule, AnyAction }

\* The names permissions are registered for; analytics is never configured
ConfiguredNames == { EmptyCaller, Shell, AU, ORD }

GlobalModulesPool == { << >>, << AU >>, << AU, AN >> }

GlobalActionsPool == { << >>, << MGet >> }

\* The PermissionsManager alone: configurations are registered and replaced,
\* the global lists are set.
NextPerm ==
  \/ \E n \in ConfiguredNames, p \in PermissionsPool :
       RegisterModulePermissions(n, p) /\ UNCHANGED issued
  \/ \E modules \in GlobalModulesPool : SetGlobalAllowedModules(modules) /\ UNCHANGED issued
  \/ \E actions \in GlobalActionsPool : SetGlobalAllowedActions(actions) /\ UNCHANGED issued

SpecPerm == Init /\ [][NextPerm]_vars

\* The resolver's inputs: besides the manifests of the lifecycle, auth that
\* depends on analytics (which closes a cycle), orders with a dependency on
\* a module no catalog holds, orders that names auth twice, analytics that
\* names auth and orders, and analytics that names the unknown module twice.
XX == <<"x", "x">>

AuthCyclic == Manifest(AU, V100, << AN >>, NoPermissions)

OrdersLost == Manifest(ORD, V100, << Dep(XX, Caret(V100)), Dep(AU, Caret(V100)) >>, NoPermissions)

AnalyticsBoth == Manifest(AN, V100, << AU, ORD >>, NoPermissions)

AnalyticsTwice == Manifest(AN, V100, << XX, XX >>, NoPermissions)

OrdersTwice == Manifest(ORD, V100, << AU, Dep(AU, Caret(V100)) >>, NoPermissions)

ResolverPool ==
  { Auth100, Auth050, AuthCyclic, Orders, OrdersLost, OrdersTwice,
    Analytics, AnalyticsBoth, AnalyticsTwice }

\* The catalogs: at most one manifest per name, under its name
Catalogs ==
  { c \in UNION { [ns -> ResolverPool] : ns \in SUBSET Names } :
      \A n \in DOMAIN c : c[n].name = n }

\* The requested lists: one or two manifests
Requests ==
  { << m >> : m \in ResolverPool } \cup { << m1, m2 >> : m1 \in ResolverPool, m2 \in ResolverPool }

\* The runs of the resolver on one catalog
MaxResolves == 2

\* A run of resolveDependencies(requested, catalog) that returned result.
\* The task keeps the arguments, the result, and the result of the run
\* before when that run had the same arguments.
Returned(t, requested, result) ==
  /\ op' = [op EXCEPT ![t] =
              [kind |-> "resolve", status |-> "resolved",
               requested |-> requested, result |-> result,
               before |-> IF op[t].kind = "resolve" /\ op[t].requested = requested
                          THEN Some(op[t].result) ELSE Null]]
  /\ UNCHANGED << permVars, auditVars, hostVars, stack, emitted, loaderLog >>

\* A run whose load order depends on how many runs came before it
ResolveOperation_Unstable(t, requested) ==
  Returned(t, requested,
           [ResolveDependencies(requested, manifests) EXCEPT
              !.loadOrder = IF issued = 0 THEN @ ELSE Reverse(@)])

\* resolveDependencies(requested, manifests) is run
ResolveOperation(t, requested) ==
  Returned(t, requested, ResolveDependencies(requested, manifests))

\* The resolver alone: the catalog is one of Catalogs, and the resolver is
\* run on requested lists.
InitResolve ==
  /\ manifests \in Catalogs
  /\ modulePermissions = << >>
  /\ globalAllowedModules = {}
  /\ globalAllowedActions = {<<"r", "e", "a", "d">>, <<"e", "m", "i", "t">>, <<"o", "n">>}
  /\ entries = << >>
  /\ enabled = TRUE
  /\ nextId = 0
  /\ registry = << >>
  /\ apis = << >>
  /\ eventHandlers = << >>
  /\ handles = << >>
  /\ llmConfig = Null
  /\ op = [t \in TaskIds |-> [kind |-> "none", status |-> "idle"]]
  /\ stack = [t \in TaskIds |-> << >>]
  /\ emitted = [t \in TaskIds |-> << >>]
  /\ loaderLog = [t \in TaskIds |-> << >>]
  /\ issued = 0

NextResolve ==
  \E t \in TaskIds, requested \in Requests :
    Issue(MaxResolves) /\ ResolveOperation(t, requested)

SpecResolve == InitResolve /\ [][NextResolve]_vars

\* The version matcher's inputs.  The numbers of the versions
VersionNumbers == { 0, 1, 2, 10 }

DigitChar(d) == CHOOSE c \in Digits : DigitVal(c) = d

\* The decimal numeral of n
RECURSIVE Decimal(_)
Decimal(n) ==
  IF n < 10 THEN << DigitChar(n) >> ELSE Decimal(n \div 10) \o << DigitChar(n % 10) >>

\* The version string 'a.b.c'
VersionString(a, b, c) == Decimal(a) \o << "." >> \o Decimal(b) \o << "." >> \o Decimal(c)

Triplets == { VersionString(a, b, c) : a \in VersionNumbers, b \in VersionNumbers, c \in VersionNumbers }

\* Text after the three numbers, which parseVersion ignores
Suffixed == { V100 \o << "-", "b" >>, V100 \o << ".", "5" >>, << "0" >> \o V100 }

\* Strings that do not begin with three numbers separated by dots
Malformed ==
  { << >>,
    << "1" >>,
    << "1", ".", "0" >>,
    << "1", ".", "0", "." >>,
    << "x" >>,
    << "v", "1", ".", "0", ".", "0" >>,
    << "1", ".", ".", "0" >>,
    << ".", "1", ".", "0", ".", "0" >>,
    << "1", ".", "0", ".", "x" >>,
    << "-", "1", ".", "0", ".", "0" >>,
    << " ", "1", ".", "0", ".", "0" >>,
    << "1", ",", "0", ",", "0" >> }

VersionInputs == Triplets \cup Suffixed \cup Malformed

\* The range operators satisfiesRange knows; the empty one is the exact match
RangeOperators == { << "^" >>, << "~" >>, << ">", "=" >>, << >> }

\* Ranges that are neither '*', 'latest' nor an operator and a version
OddRanges ==
  { << "^" >>,
    << "~" >>,
    << ">", "=" >>,
    << ">", "1", ".", "0", ".", "0" >>,
    << "<", "=", "1", ".", "0", ".", "0" >>,
    << "=", "1", ".", "0", ".", "0" >>,
    << "l", "a", "t", "e", "s", "t", " " >>,
    << "*", "*" >>,
    << "^", "^", "1", ".", "0", ".", "0" >>,
    << ">", "=", " ", "1", ".", "0", ".", "0" >> }

RangeInputs ==
  { << "*" >>, << "l", "a", "t", "e", "s", "t" >> }
    \cup { o \o v : o \in RangeOperators, v \in VersionInputs }
    \cup OddRanges

\* satisfiesRange(version, range) of the task's arguments returns
SatisfiesOperation(t) ==
  /\ op[t].kind = "satisfies" /\ op[t].status = "pending"
  /\ op' = [op EXCEPT ![t] =
              [kind |-> "satisfies", status |-> "resolved",
               version |-> op[t].version, range |-> op[t].range,
               result |-> SatisfiesRange(op[t].version, op[t].range)]]
  /\ UNCHANGED << permVars, auditVars, hostVars, stack, emitted, loaderLog, issued >>

\* The version matcher alone: satisfiesRange is applied to a version and a
\* range of the inputs.
InitVersion ==
  /\ op \in [TaskIds -> { [kind |-> "satisfies", status |-> "pending",
                           version |-> v, range |-> r] :
                            v \in VersionInputs, r \in RangeInputs }]
  /\ modulePermissions = << >>
  /\ globalAllowedModules = {}
  /\ globalAllowedActions = {<<"r", "e", "a", "d">>, <<"e", "m", "i", "t">>, <<"o", "n">>}
  /\ entries = << >>
  /\ enabled = TRUE
  /\ nextId = 0
  /\ manifests = << >>
  /\ registry = << >>
  /\ apis = << >>
  /\ eventHandlers = << >>
  /\ handles = << >>
  /\ llmConfig = Null
  /\ stack = [t \in TaskIds |-> << >>]
  /\ emitted = [t \in TaskIds |-> << >>]
  /\ loaderLog = [t \in TaskIds |-> << >>]
  /\ issued = 0

NextVersion == \E t \in TaskIds : SatisfiesOperation(t)

SpecVersion == InitVersion /\ [][NextVersion]_vars

\* The log operations of the logger specification
MaxLogs == 4

\* What is logged: a result or an error message
Outcomes == { [result |-> Some("r"), error |-> Null], [result |-> Null, error |-> Some("e")] }

\* The AuditLogger alone: calls are logged, logging is switched on and off.
NextAudit ==
  \/ /\ issued < MaxLogs
     /\ issued' = issued + 1
     /\ \E c \in Callers, m \in { MGet, MSet }, o \in Outcomes, d \in 0..MaxDuration :
          LogOperation(c, AU, m, << >>, o.result, o.error, d)
  \/ \E b \in BOOLEAN : SetEnabled(b) /\ UNCHANGED issued

SpecAudit == Init /\ [][NextAudit]_vars

\* The log operations of the statistics specification
MaxStatLogs == 3

\* The logger alone, for its statistics: calls of two modules are logged
\* at once or started and completed, and the statistics are read.
NextStats ==
  \E t \in TaskIds :
    \/ /\ issued < MaxStatLogs
       /\ issued' = issued + 1
       /\ \E m \in { AU, ORD }, o \in Outcomes, d \in 0..MaxDuration :
            /\ LogOperation(Shell, m, MGet, << >>, o.result, o.error, d)
    \/ /\ issued < MaxStatLogs
       /\ issued' = issued + 1
       /\ \E m \in { AU, ORD } : LogStart(t, Shell, m, MGet, << >>)
    \/ \E i \in 1..Len(entries), o \in Outcomes, d \in 0..MaxDuration :
         /\ entries[i].duration = -1
         /\ LogComplete(t, entries[i].id, o.result, o.error, d)
         /\ UNCHANGED issued
    \/ GetStatsOperation(t) /\ UNCHANGED issued

SpecStats == Init /\ [][NextStats]_vars

\* The operations issued to a host in the client specification
MaxClientOps == 3

\* The MFEs whose clients call, and the modules they call
Clients == { ORD, AN }

ClientTargets == { AU, ORD }

\* The API an MFE client registers through the bridge
ClientApiPool == { (MGet :> "resolves") @@ (MSet :> "rejects") }

\* MFEs behind the shell's bridge: orders and analytics are registered with
\* their permissions, the clients of the MFEs register their APIs and call
\* other modules.
NextClient ==
  \E t \in TaskIds :
    \/ Issue(MaxClientOps) /\ \E m \in { Orders, Analytics } : RegisterModuleManifest(t, m)
    \/ Issue(MaxClientOps) /\ \E n \in ClientTargets, api \in ClientApiPool :
                                 RegisterAPI(t, n, api)
    \/ Issue(MaxClientOps) /\ \E c \in Clients, n \in ClientTargets,
                                    m \in { MGet, MSet }, a \in CallArgs :
                                 ClientCall(t, c, n, m, a)
    \/ CallStep(t) /\ UNCHANGED issued

SpecClient == Init /\ [][NextClient]_vars

\* The longest plan
MaxPlanLen == 3

\* The steps of the plans: auth's get, which resolves, set, which rejects,
\* and a method auth does not have, each with waitFor true and false, and
\* set without waitFor
PlanSteps ==
  { [module |-> AU, method |-> m, args |-> << >>, waitFor |-> w] :
      m \in { MGet, MSet, MNone }, w \in { Some(TRUE), Some(FALSE) } }
    \cup { [module |-> AU, method |-> MSet, args |-> << >>, waitFor |-> Null] }

\* The plans: up to MaxPlanLen steps, numbered from 1
Plans ==
  UNION { { [k \in 1..n |-> steps[k] @@ [id |-> k]] : steps \in [1..n -> PlanSteps] } :
            n \in 0..MaxPlanLen }

\* The bridge executes one plan, over a host where auth's API is registered
\* or not.
NextPlan ==
  \E t \in TaskIds :
    \/ op[t].kind = "none" /\ \E api \in ClientApiPool : RegisterAPI(t, AU, api)
                           /\ UNCHANGED issued
    \/ op[t].kind \in { "none", "registerAPI" } /\ \E plan \in Plans : StartPlan(t, plan)
                                                /\ UNCHANGED issued
    \/ CallStep(t) /\ UNCHANGED issued
    \/ ContinuePlan(t) /\ UNCHANGED issued

SpecPlan == Init /\ [][NextPlan]_vars

\* The most operations on the bridge and its host in one behaviour
MaxIntentOps == 4

\* The modules the patterns' handlers target
IntentManifests == { Auth100, Orders, Analytics }

\* The intents: one or two per pattern, some matched by several patterns,
\* one matched by none, and the empty intent
Intents ==
  { << "open", "order", "5" >>,
    << "open", "the", "order", "5", "and", "mark", "it", "as", "done" >>,
    << "mark", "as", "done" >>,
    << "show", "analytics" >>,
    << "show", "analytics", "and", "mark", "as", "done" >>,
    << "login", "and", "show", "analytics" >>,
    << "login", "as", "bob", "with", "password", "12" >>,
    << "logout" >>,
    << "pokazhi", "zakaz", "5", "i", "pomet", "kak", "done" >>,
    << "pokazhi", "analitiku" >>,
    << "hello" >>,
    << >> }

\* What processWithLLM may resolve with: no step, a step for analytics, and
\* a step for a module nobody registered
LLMPlans ==
  { << >>,
    << Step(1, AN, "getSummary", << >>) >>,
    << Step(1, << "x" >>, "run", << >>) >> }

\* The bridge over a host where manifests are registered: a model is
\* configured or not, and intents are processed.
NextIntent ==
  \E t \in TaskIds :
    \/ Issue(MaxIntentOps) /\ \E m \in IntentManifests : RegisterModuleManifest(t, m)
    \/ Issue(MaxIntentOps) /\ ConfigureLLM(t, "config")
    \/ Issue(MaxIntentOps) /\ \E intent \in Intents : ProcessIntent(t, intent)
    \/ \E llmPlan \in LLMPlans : LLMResolved(t, llmPlan) /\ UNCHANGED issued
    \/ LLMRejected(t) /\ UNCHANGED issued

SpecIntent == Init /\ [][NextIntent]_vars

\* The most operations on the host's events in one behaviour
MaxEventOps == 5

\* Two handler functions and two event types
EventHandlers == { "h1", "h2" }

EventTypes == { "module:unloaded", "module:loaded" }

\* Handlers subscribe and unsubscribe, and auth is unloaded, which emits
\* module:unloaded.
NextEvents ==
  \E t \in TaskIds :
    \/ Issue(MaxEventOps) /\ \E type \in EventTypes, handler \in EventHandlers :
                              On(t, type, handler)
    \/ Issue(MaxEventOps) /\ \E h \in 1..Len(handles) : Unsubscribe(t, h)
    \/ Issue(MaxEventOps) /\ UnloadMFE(t, AU)

SpecEvents == Init /\ [][NextEvents]_vars

\* The loadMFE calls of the overlap specification
MaxOverlapLoads == 2

\* Two callers of the host whose loadMFE calls may overlap
OverlapTasks == { 1, 2 }

InitOverlap ==
  /\ modulePermissions = << >>
  /\ globalAllowedModules = {}
  /\ globalAllowedActions = {<<"r", "e", "a", "d">>, <<"e", "m", "i", "t">>, <<"o", "n">>}
  /\ entries = << >>
  /\ enabled = TRUE
  /\ nextId = 0
  /\ manifests = << >>
  /\ registry = << >>
  /\ apis = << >>
  /\ eventHandlers = << >>
  /\ handles = << >>
  /\ llmConfig = Null
  /\ op = [t \in OverlapTasks |-> [kind |-> "none", status |-> "idle"]]
  /\ stack = [t \in OverlapTasks |-> << >>]
  /\ emitted = [t \in OverlapTasks |-> << >>]
  /\ loaderLog = [t \in OverlapTasks |-> << >>]
  /\ issued = 0

\* Manifests are registered, and then two callers load modules without
\* waiting for each other: a loadMFE may be called while another is
\* suspended at one of its awaits.
NextOverlap ==
  \/ /\ issued = 0
     /\ \A t \in OverlapTasks : op[t].status # "running"
     /\ \E m \in IntentManifests : RegisterModuleManifest(1, m)
     /\ UNCHANGED issued
  \/ /\ issued < MaxOverlapLoads
     /\ issued' = issued + 1
     /\ \E t \in OverlapTasks, url \in Urls : StartLoad(t, url)
  \/ \E t \in OverlapTasks : LoadStep(t) /\ UNCHANGED issued

SpecOverlap == InitOverlap /\ [][NextOverlap]_vars

\* The calls of the overlapping-calls specification
MaxOverlapCalls == 2

\* The arguments by which the call of a caller is told from the other's
ArgsOf(t) == IF t = 1 THEN << >> ELSE << "x" >>

\* auth's API is registered, and then the first caller calls a method of
\* auth and the second caller calls one before or after that call settled.
NextCallOverlap ==
  \/ /\ issued = 0
     /\ op[1].kind = "none"
     /\ \E api \in ClientApiPool : RegisterAPI(1, AU, api)
     /\ UNCHANGED issued
  \/ /\ issued < MaxOverlapCalls
     /\ issued' = issued + 1
     /\ \E t \in OverlapTasks, m \in { MGet, MSet, MNone } :
          /\ op[t].kind # "call"
          /\ t = 2 => op[1].kind = "call"
          /\ StartCall(t, AU, m, ArgsOf(t), Shell)
  \/ \E t \in OverlapTasks : CallStep(t) /\ UNCHANGED issued

SpecCallOverlap == InitOverlap /\ [][NextCallOverlap]_vars

\* The operations of the cyclic-dependencies specification
MaxCyclicOps == 4

\* orders that names itself among its dependencies
OrdersSelf == Manifest(ORD, V100, << ORD, Dep(AU, Caret(V100)) >>, OrdPermissions)

\* auth without dependencies and auth that needs analytics (which closes
\* the cycle auth, analytics, orders), orders alone and self-referencing
CyclicPool == { Auth100, AuthCyclic, Orders, OrdersSelf, Analytics }

\* Manifests with and without cycles are registered and modules are loaded,
\* one operation after the other has settled.
NextCyclic ==
  \E t \in TaskIds :
    \/ Issue(MaxCyclicOps) /\ \E m \in CyclicPool : RegisterModuleManifest(t, m)
    \/ Issue(MaxCyclicOps) /\ \E url \in Urls : StartLoad(t, url)
    \/ LoadStep(t) /\ UNCHANGED issued

SpecCyclic == Init /\ [][NextCyclic]_vars

\* The operations of the settling specification
MaxLiveOps == 3

\* auth that needs orders, which closes the cycle auth, orders
AuthBack == Manifest(AU, V100, << ORD >>, NoPermissions)

\* auth alone and in a cycle with orders, orders alone and self-referencing
LivePool == { Auth100, AuthBack, Orders, OrdersSelf, Analytics }

\* Manifests with and without cycles are registered and modules are loaded,
\* one operation after the other has settled.
NextCyclicLive ==
  \E t \in TaskIds :
    \/ Issue(MaxLiveOps) /\ \E m \in LivePool : RegisterModuleManifest(t, m)
    \/ Issue(MaxLiveOps) /\ \E url \in Urls : StartLoad(t, url)
    \/ LoadStep(t) /\ UNCHANGED issued

\* Where the activations of the loadMFE of caller t stand; every step of a
\* load changes it
Progress(t) == [i \in 1..Len(stack[t]) |-> stack[t][i].pc]

\* Every loader invocation settles and every continuation of a settled
\* promise runs
SpecCyclicLive ==
  /\ Init
  /\ [][NextCyclicLive]_vars
  /\ \A t \in TaskIds : WF_Progress(t)(LoadStep(t) /\ UNCHANGED issued)

\* The operations of the unload-during-load specification
MaxUnloadOps == 3

\* Manifests are registered, and then the first caller loads modules while
\* the second caller unloads modules, also while a load is suspended.
NextUnloadOverlap ==
  \/ /\ issued = 0
     /\ \A t \in OverlapTasks : op[t].status # "running"
     /\ \E m \in IntentManifests : RegisterModuleManifest(1, m)
     /\ UNCHANGED issued
  \/ /\ issued < MaxUnloadOps
     /\ issued' = issued + 1
     /\ \E url \in Urls : StartLoad(1, url)
  \/ /\ issued < MaxUnloadOps
     /\ issued' = issued + 1
     /\ \E n \in Names : UnloadMFE(2, n)
  \/ LoadStep(1) /\ UNCHANGED issued

SpecUnloadOverlap == InitOverlap /\ [][NextUnloadOverlap]_vars

\* The operations of the dispatch specification
MaxDispatchOps == 4

\* Handlers that return, throw, and unsubscribe during the dispatch
DispatchHandlers == { "h1", "h2", "throws", "unsubscribesItself", "unsubscribesH1" }

\* Handlers subscribe to module:unloaded, each at most once at a time, and
\* unsubscribe, and auth is unloaded, which emits module:unloaded to them.
NextDispatch ==
  \E t \in TaskIds :
    \/ /\ Issue(MaxDispatchOps)
       /\ \E handler \in DispatchHandlers :
            /\ IndexOf(HandlersOf("module:unloaded"), handler) = 0
            /\ On(t, "module:unloaded", handler)
    \/ Issue(MaxDispatchOps) /\ \E h \in 1..Len(handles) : Unsubscribe(t, h)
    \/ Issue(MaxDispatchOps) /\ UnloadMFE(t, AU)

SpecDispatch == Init /\ [][NextDispatch]_vars

\* The registrations of the registration specification
MaxRegistrations == 3

\* Manifests are registered and registered again, with and without a
\* permissions declaration.
NextRegister ==
  \E t \in TaskIds :
    Issue(MaxRegistrations) /\ \E m \in ResolverPool : RegisterModuleManifest(t, m)

SpecRegister == Init /\ [][NextRegister]_vars

\* The runs of the resolver on one catalog with cycles
MaxCyclicResolves == 2

\* Manifests with cycles among three modules, between two, and of one
CyclicResolverPool ==
  { Auth100, AuthCyclic, AuthBack, Orders, OrdersSelf, Analytics, AnalyticsBoth }

\* The catalogs with cycles: at most one manifest per name, under its name
CyclicCatalogs ==
  { c \in UNION { [ns -> CyclicResolverPool] : ns \in SUBSET Names } :
      \A n \in DOMAIN c : c[n].name = n }

\* The resolver alone on catalogs with cycles
InitResolveCyclic ==
  /\ manifests \in CyclicCatalogs
  /\ modulePermissions = << >>
  /\ globalAllowedModules = {}
  /\ globalAllowedActions = {<<"r", "e", "a", "d">>, <<"e", "m", "i", "t">>, <<"o", "n">>}
  /\ entries = << >>
  /\ enabled = TRUE
  /\ nextId = 0
  /\ registry = << >>
  /\ apis = << >>
  /\ eventHandlers = << >>
  /\ handles = << >>
  /\ llmConfig = Null
  /\ op = [t \in TaskIds |-> [kind |-> "none", status |-> "idle"]]
  /\ stack = [t \in TaskIds |-> << >>]
  /\ emitted = [t \in TaskIds |-> << >>]
  /\ loaderLog = [t \in TaskIds |-> << >>]
  /\ issued = 0

\* resolveDependencies is run on one requested manifest
NextResolveCyclic ==
  \E t \in TaskIds, m \in CyclicResolverPool :
    Issue(MaxCyclicResolves) /\ ResolveOperation(t, << m >>)

SpecResolveCyclic == InitResolveCyclic /\ [][NextResolveCyclic]_vars
-----------------------------------------------------------------------------
(* The lifecycle of the registry entries: Spec                             *)

\* The changes of status a step makes: the pairs <<before, after>> of the
\* entries whose status the step changed.
StatusChanges ==
  { << registry[n].status, registry'[n].status >> :
      n \in { m \in DOMAIN registry \cap DOMAIN registry' :
                registry[m].status # registry'[m].status } }

\* The transitions of the state machine the design describes
DocumentedTransitions ==
  { << "pending", "loading" >>, << "loading", "loaded" >>, << "loading", "error" >>,
    << "loaded", "pending" >>, << "error", "loading" >> }

\* C1 as stated: every change of an entry's status is one of pending->loading,
\* loading->loaded, loading->error, loaded->pending, error->loading.
C1_OnlyDocumentedTransitions == [][StatusChanges \subseteq DocumentedTransitions]_vars

\* C1: every change of a registry entry's status is one of the five
\* documented transitions, or loaded->loading (loadMFE of a loaded module
\* loads it again), or error->pending (unloadMFE of a module whose load
\* failed).
C1_StatusTransitions ==
  [][StatusChanges \subseteq
       DocumentedTransitions \cup { << "loaded", "loading" >>, << "error", "pending" >> }]_vars

\* A module is being loaded again: its entry is loading and still holds the
\* module of the load before, beside an entry that an unload took out of error.
C1_Reloading ==
  \E n \in DOMAIN registry, m \in DOMAIN registry :
    /\ registry[n].status = "loading" /\ IsSome(registry[n].module)
    /\ op[1].kind = "load" /\ op[1].name = n
    /\ registry[m].status = "pending" /\ IsSome(registry[m].error)
         /\ ~IsSome(registry[m].module)

\* The task's loadMFE is for a registered module
Registered(t) ==
  /\ op[t].kind = "load"
  /\ op[t].name \in DOMAIN manifests
  /\ manifests[op[t].name].url = op[t].url

\* The names a manifest declares dependencies on
DependencyNames(manifest) ==
  { ParseDependency(manifest.dependencies[i]).name : i \in 1..Len(manifest.dependencies) }

\* The dependency closure of the module the task loads, as the resolver sees it
Closure(t) == ResolveDependencies(<< manifests[op[t].name] >>, manifests)

\* The closure has no conflict and no cycle (a cycle's modules are missing
\* from the load order)
ConflictFreeAcyclic(r) ==
  /\ r.conflicts = << >>
  /\ Range(r.loadOrder) = DOMAIN r.resolved

Loaded(n) == n \in DOMAIN registry /\ registry[n].status = "loaded"

\* Whenever the loader is invoked for a module, its dependencies are loaded
DependenciesLoadedFirst(t) ==
  \A i \in 1..Len(stack[t]) :
    stack[t][i].pc = "importing" =>
      \A d \in DependencyNames(stack[t][i].manifest) : Loaded(d)

\* C2 as stated: loading a registered module with a conflict-free, acyclic
\* closure, the loader is invoked for a module only when its dependencies
\* are loaded, and when loadMFE returns the module and all its transitive
\* dependencies are loaded.
C2_ClosureLoaded ==
  \A t \in TaskIds :
    (Registered(t) /\ ConflictFreeAcyclic(Closure(t))) =>
      /\ DependenciesLoadedFirst(t)
      /\ op[t].status = "resolved" => \A n \in DOMAIN Closure(t).resolved : Loaded(n)

\* C3: loadMFE of a registered module one of whose dependencies is
\* registered in a version outside the declared range fails: the module is
\* never loaded by it, and ends in error with loadMFE rejected.
Unsatisfied(manifest) ==
  \E i \in 1..Len(manifest.dependencies) :
    LET pd == ParseDependency(manifest.dependencies[i])
    IN  /\ pd.name \in DOMAIN manifests
        /\ ~SatisfiesRange(manifests[pd.name].version, pd.range)

\* C3: a load with an unsatisfied dependency version fails and never loads
C3_UnsatisfiedVersionFails ==
  \A t \in TaskIds :
    (Registered(t) /\ Unsatisfied(manifests[op[t].name])) =>
      /\ registry[op[t].name].status \in { "loading", "error" }
      /\ op[t].status # "running" =>
           /\ op[t].status = "rejected"
           /\ registry[op[t].name].status = "error"

\* orders was loaded with auth loaded in version 0.5.0, and the load failed
C3_Witness ==
  /\ Registered(1) /\ op[1].name = ORD /\ op[1].status = "rejected"
  /\ Unsatisfied(manifests[ORD])
  /\ manifests[AU].version = V050 /\ Loaded(AU)
  /\ registry[ORD].status = "error"

\* The module:error events the task's operation emitted
ErrorEvents(t) ==
  { i \in 1..Len(emitted[t]) : emitted[t][i].type = "module:error" }

\* The failure a failed load started from: what the loader rejected with, or
\* the conflicts of the module that failed first
Origin(t) ==
  IF loaderLog[t] # << >> /\ loaderLog[t][Len(loaderLog[t])].ev = "rejected"
  THEN loaderLog[t][Len(loaderLog[t])].error
  ELSE Err(<< "Dependency conflicts",
              ResolveDependencies(
                << manifests[emitted[t][CHOOSE i \in ErrorEvents(t) :
                                          \A j \in ErrorEvents(t) : i <= j].payload.name] >>,
                manifests).conflicts >>)

\* C4: when a loadMFE fails, the module it is for, and every dependency
\* whose loadMFE failed within it, is in status error with the failure
\* stored on its entry, exactly one module:error event names it and carries
\* the failure's message, and the failure loadMFE rejects with is the one
\* that occurred.
C4_FailureRecorded ==
  \A t \in TaskIds :
    (op[t].kind = "load" /\ op[t].status = "rejected") =>
      /\ op[t].value = Origin(t)
      /\ \E i \in ErrorEvents(t) : emitted[t][i].payload.name = op[t].name
      /\ \A i \in ErrorEvents(t) :
           LET n == emitted[t][i].payload.name
           IN  /\ registry[n].status = "error"
               /\ registry[n].error = Some(AsError(op[t].value))
               /\ emitted[t][i].payload.error = op[t].value.text
               /\ \A j \in ErrorEvents(t) : emitted[t][j].payload.name = n => j = i

\* The loader of orders rejected with a bare string while analytics was
\* loaded, after auth was loaded for it: orders and analytics failed in turn.
C4_Witness ==
  /\ op[1].kind = "load" /\ op[1].status = "rejected" /\ op[1].name = AN
  /\ ~op[1].value.error
  /\ Cardinality(ErrorEvents(1)) = 2
  /\ registry[AU].status = "loaded" /\ registry[ORD].status = "error"
  /\ registry[AN].error = Some(Err(op[1].value.text))

-----------------------------------------------------------------------------
(* The dispatch of calls: SpecCall                                         *)

\* The step is a call of the task's: call ran to its failure or to the
\* invocation of the method
CallIssued(t) == issued' = issued + 1 /\ op'[t].kind = "call"

\* The step ends a call of the task's: call failed before it invoked the
\* method, or the method it invoked settled
CallEnded(t) ==
  /\ op'[t].kind = "call"
  /\ op'[t].status \in { "resolved", "rejected" }
  /\ CallIssued(t) \/ (op[t].kind = "call" /\ op[t].status = "running")

\* What the permissions manager says of the call the step is
Check(t) == CanCallModule(op'[t].caller, op'[t].module, op'[t].method)

\* The step appends one entry to the audit log: the entries after it are
\* those before it, cut to the newest, and one new entry with a new id
OneEntryAppended ==
  /\ nextId' = nextId + 1
  /\ entries' # << >>
  /\ entries'[Len(entries')].id = nextId'
  /\ entries' = Trim(Append(entries, entries'[Len(entries')]))

NewEntry == entries'[Len(entries')]

\* The step makes the call fail with the error e before any method is
\* invoked, and audits the failure
FailsUninvoked(t, e) ==
  /\ op'[t].status = "rejected"
  /\ ~op'[t].invoked
  /\ op'[t].value = e
  /\ OneEntryAppended
  /\ NewEntry.error = Some(e.text)
  /\ NewEntry.result = Null

\* C5 as stated: a call the permissions manager denies invokes nothing,
\* fails with the manager's reason, and leaves exactly one audit entry with
\* that reason as its error and duration 0.
C5_DenialAudited ==
  [][\A t \in TaskIds :
       (CallIssued(t) /\ ~Check(t).allowed) =>
         /\ FailsUninvoked(t, Err(Get(Check(t).reason)))
         /\ NewEntry.duration = 0]_vars

\* C5: with auditing enabled, a call the permissions manager denies invokes
\* nothing, fails with the manager's reason, and leaves exactly one audit
\* entry with that reason as its error and duration 0; with auditing
\* disabled it fails alike and leaves the audit log as it was.
C5_DenialAuditedWhenEnabled ==
  [][\A t \in TaskIds :
       (CallIssued(t) /\ ~Check(t).allowed) =>
         /\ op'[t].status = "rejected" /\ ~op'[t].invoked
         /\ op'[t].value = Err(Get(Check(t).reason))
         /\ IF enabled
            THEN /\ FailsUninvoked(t, Err(Get(Check(t).reason)))
                 /\ NewEntry.duration = 0
            ELSE UNCHANGED << entries, nextId >>]_vars

\* orders, which may only call 'get' of modules named a*, called 'set' of
\* auth: the call was denied and the denial is the newest audit entry
C5_Witness ==
  /\ op[1].kind = "call" /\ op[1].status = "rejected" /\ ~op[1].invoked
  /\ op[1].caller = ORD /\ op[1].module = AU /\ op[1].method = MSet
  /\ ORD \in DOMAIN modulePermissions
  /\ ~CanCallModule(ORD, AU, MSet).allowed
  /\ entries # << >>
  /\ entries[Len(entries)].error = Some(op[1].value.text)
  /\ entries[Len(entries)].id = nextId
  /\ entries[Len(entries)].duration = 0

\* C6: with auditing enabled, every call appends exactly one audit entry,
\* when it ends: the entry has the caller, module, method and args of the
\* call, and an error if and only if the call failed; a call that has
\* invoked its method has appended nothing yet.
C6_EveryCallAudited ==
  [][\A t \in TaskIds :
       /\ (CallEnded(t) /\ enabled) =>
            /\ OneEntryAppended
            /\ NewEntry.caller = op'[t].caller
            /\ NewEntry.module = op'[t].module
            /\ NewEntry.method = op'[t].method
            /\ NewEntry.args = op'[t].args
            /\ IsSome(NewEntry.error) <=> op'[t].status = "rejected"
       /\ (CallIssued(t) /\ ~CallEnded(t)) => UNCHANGED << entries, nextId >>]_vars

\* orders called 'get' of auth with an argument, the method took its time
\* and resolved: the newest audit entry is the call's, without error
C6_Witness ==
  /\ op[1].kind = "call" /\ op[1].status = "resolved" /\ op[1].invoked
  /\ op[1].caller = ORD /\ op[1].module = AU /\ op[1].method = MGet
  /\ op[1].args = << "x" >>
  /\ enabled
  /\ entries # << >>
  /\ entries[Len(entries)].id = nextId
  /\ entries[Len(entries)].args = << "x" >>
  /\ entries[Len(entries)].error = Null
  /\ entries[Len(entries)].duration = MaxDuration

\* The module has never been loaded, or was unloaded: its entry, if any,
\* holds no module
NotLoaded(n) == n \notin DOMAIN registry \/ ~IsSome(registry[n].module)

\* C7 as stated, of the calls the permissions manager allows while auditing
\* is enabled: a call of a module that has never been loaded, or has been
\* unloaded, fails with the module-not-found error, invokes nothing and
\* appends an audit entry with that error.
C7_NotLoadedNotFound ==
  [][\A t \in TaskIds :
       (CallIssued(t) /\ enabled /\ Check(t).allowed /\ NotLoaded(op'[t].module)) =>
         FailsUninvoked(t, TargetNotFound(op'[t].module))]_vars

\* C7: with auditing enabled, a call the permissions manager allows of a
\* module that has no API registered fails with the module-not-found error,
\* invokes nothing and appends an audit entry with that error.  A module
\* has no API registered after unloadMFE, and gets one only by registerAPI
\* or by a load that succeeds.
C7_NoApiNotFound ==
  [][\A t \in TaskIds :
       /\ (CallIssued(t) /\ enabled /\ Check(t).allowed /\ op'[t].module \notin DOMAIN apis) =>
            FailsUninvoked(t, TargetNotFound(op'[t].module))
       /\ (issued' = issued + 1 /\ op'[t].kind = "unload") =>
            op'[t].name \notin DOMAIN apis'
       /\ \A n \in DOMAIN apis' \ DOMAIN apis :
            \/ op'[t].kind = "registerAPI" /\ op'[t].name = n
            \/ /\ n \in DOMAIN registry /\ registry[n].status = "loading"
               /\ registry'[n].status = "loaded"]_vars

\* auth, loaded from its url and unloaded, was called by the shell: the call
\* failed with the module-not-found error, which is the newest audit entry
C7_Witness ==
  /\ op[1].kind = "call" /\ op[1].status = "rejected" /\ ~op[1].invoked
  /\ op[1].module = AU /\ op[1].caller = Shell
  /\ op[1].value = TargetNotFound(AU)
  /\ AU \in DOMAIN registry /\ registry[AU].status = "pending"
  /\ entries # << >>
  /\ entries[Len(entries)].error = Some(TargetNotFound(AU).text)
  /\ entries[Len(entries)].id = nextId

\* The callable API members of a loaded module: the functions of its
\* exports' api object
CallableMembers(n) == DOMAIN ExtractApi(Get(registry[n].module).exports)

\* C8 as stated, of the calls the permissions manager allows while auditing
\* is enabled: a call of a loaded module with a method name that is not
\* among its callable API members fails with the method-not-found error and
\* appends an audit entry, also when the module has no callable API member.
C8_LoadedMethodNotFound ==
  [][\A t \in TaskIds :
       (/\ CallIssued(t) /\ enabled /\ Check(t).allowed
        /\ Loaded(op'[t].module)
        /\ op'[t].method \notin CallableMembers(op'[t].module)) =>
         FailsUninvoked(t, MethodNotFound(op'[t].module, op'[t].method))]_vars

\* The registered API object has no function of that name, own or inherited
NoFunction(api, method) ==
  /\ method \notin { k \in DOMAIN api : api[k] # "value" }
  /\ method \notin ObjectPrototypeFunctions

\* C8: with auditing enabled, a call the permissions manager allows of a
\* module that has an API registered, with a method name the API object has
\* no function for, fails with the method-not-found error, invokes nothing
\* and appends an audit entry with that error; of a loaded module without
\* API registered, its exports having no callable API member, it fails with
\* the module-not-found error.
C8_RegisteredMethodNotFound ==
  [][\A t \in TaskIds :
       (CallIssued(t) /\ enabled /\ Check(t).allowed) =>
         /\ (op'[t].module \in DOMAIN apis /\ NoFunction(apis[op'[t].module], op'[t].method)) =>
              FailsUninvoked(t, MethodNotFound(op'[t].module, op'[t].method))
         /\ (/\ Loaded(op'[t].module)
             /\ CallableMembers(op'[t].module) = {}
             /\ op'[t].module \notin DOMAIN apis) =>
              op'[t].value = TargetNotFound(op'[t].module)]_vars

\* auth is loaded with its API, and a method it does not export was called:
\* the call failed with the method-not-found error, the newest audit entry
C8_Witness ==
  /\ op[1].kind = "call" /\ op[1].status = "rejected" /\ ~op[1].invoked
  /\ op[1].module = AU /\ op[1].method = MNone
  /\ Loaded(AU) /\ CallableMembers(AU) = { MGet, MSet }
  /\ op[1].value = MethodNotFound(AU, MNone)
  /\ entries # << >>
  /\ entries[Len(entries)].error = Some(MethodNotFound(AU, MNone).text)
  /\ entries[Len(entries)].id = nextId

-----------------------------------------------------------------------------
(* The PermissionsManager: SpecPerm                                        *)

\* The callers, targets and methods canCallModule is asked about
AskingCallers == { EmptyCaller, Shell, AU, ORD, AN }

AskedTargets == { AU, ORD, AN }

AskedMethods == { MGet, MSet }

\* C9: canCallModule allows the empty caller and 'shell' every target and
\* method, whatever permissions and global lists are registered.
C9_ShellAlwaysAllowed ==
  \A c \in { EmptyCaller, Shell }, target \in AskedTargets, method \in AskedMethods :
    CanCallModule(c, target, method) = [allowed |-> TRUE, reason |-> Null]

\* Configurations that allow nothing are registered for '' and for 'shell',
\* and no module is globally allowed
C9_Witness ==
  /\ EmptyCaller \in DOMAIN modulePermissions /\ modulePermissions[EmptyCaller] = DenyAll
  /\ Shell \in DOMAIN modulePermissions /\ modulePermissions[Shell] = DenyAll
  /\ globalAllowedModules = {}
  /\ globalAllowedActions = {}

\* The callers other than '' and 'shell' without registered configuration
Unconfigured == { c \in AskingCallers \ { EmptyCaller, Shell } : c \notin DOMAIN modulePermissions }

\* C10 as stated: a caller other than '' and 'shell' without registered
\* configuration is denied every target and every method.
C10_UnconfiguredDenied ==
  \A c \in Unconfigured, target \in AskedTargets, method \in AskedMethods :
    ~CanCallModule(c, target, method).allowed

\* C10: a caller other than '' and 'shell' without registered configuration
\* is allowed the targets that are globally allowed modules, every method of
\* them, and is denied every other target and every method, for the reason
\* that it has no permissions configured.
C10_UnconfiguredDeniedUnlessGlobal ==
  \A c \in Unconfigured, target \in AskedTargets, method \in AskedMethods :
    CanCallModule(c, target, method) =
      IF target \in globalAllowedModules
      THEN [allowed |-> TRUE, reason |-> Null]
      ELSE [allowed |-> FALSE,
            reason |-> Some(<< "Module '", c, "' has no permissions configured" >>)]

\* auth is globally allowed and orders is not, orders and auth have
\* configurations, and analytics has none
C10_Witness ==
  /\ AN \in Unconfigured
  /\ DOMAIN modulePermissions = ConfiguredNames
  /\ globalAllowedModules = { AU }
  /\ CanCallModule(AN, AU, MSet).allowed
  /\ ~CanCallModule(AN, ORD, MGet).allowed

\* The callers other than '' and 'shell' with a registered configuration
Configured == { c \in AskingCallers \ { EmptyCaller, Shell } : c \in DOMAIN modulePermissions }

\* list names target: an entry is '*', is the target, or is 'prefix*' with
\* the target starting with prefix
NamesTarget(list, target) ==
  \E i \in 1..Len(list) :
    \/ list[i] = <<"*">>
    \/ list[i] = target
    \/ /\ Len(list[i]) > 0
       /\ list[i][Len(list[i])] = "*"
       /\ Len(target) >= Len(list[i]) - 1
       /\ \A k \in 1..(Len(list[i]) - 1) : target[k] = list[i][k]

\* list names the method of target: it holds '*', the method, or
\* 'target.method'
NamesMethod(list, target, method) ==
  \E i \in 1..Len(list) :
    \/ list[i] = <<"*">>
    \/ list[i] = method
    \/ list[i] = target \o <<".">> \o method

ModuleGranted(c, target) ==
  \/ modulePermissions[c].allowedModules = Null
  \/ NamesTarget(Get(modulePermissions[c].allowedModules), target)

ActionGranted(c, target, method) ==
  \/ modulePermissions[c].allowedActions = Null
  \/ NamesMethod(Get(modulePermissions[c].allowedActions), target, method)

\* C11: for a caller other than '' and 'shell' with a configuration and a
\* target that is no globally allowed module, canCallModule allows exactly
\* when the configuration grants the target module (no allowedModules list,
\* or an entry '*', the target, or 'prefix*' the target starts with) and
\* grants the action (no allowedActions list, or '*', the method, or
\* 'target.method' in it); a target that is not granted is denied for a
\* reason that names the caller and the target.
C11_ConfiguredCallerAllowed ==
  \A c \in Configured, target \in AskedTargets \ globalAllowedModules, method \in AskedMethods :
    /\ CanCallModule(c, target, method).allowed
          <=> (ModuleGranted(c, target) /\ ActionGranted(c, target, method))
    /\ ~ModuleGranted(c, target) =>
          CanCallModule(c, target, method).reason =
            Some(<< "Module '", c, "' is not allowed to access module '", target, "'" >>)

\* orders is configured with allowedModules ['a*'] and allowedActions
\* ['get'], auth with allowedModules ['*'] and allowedActions ['au.get'];
\* no module is globally allowed: orders is allowed auth.get and
\* analytics.get by the prefix, denied auth.set and denied orders; auth is
\* allowed auth.get by 'au.get' and denied orders.get
C11_Witness ==
  /\ globalAllowedModules = {}
  /\ ORD \in Configured /\ modulePermissions[ORD] = Get(OrdPermissions)
  /\ AU \in Configured /\ modulePermissions[AU] = AnyModule
  /\ CanCallModule(ORD, AU, MGet).allowed
  /\ CanCallModule(ORD, AN, MGet).allowed
  /\ ~CanCallModule(ORD, AU, MSet).allowed
  /\ ~CanCallModule(ORD, ORD, MGet).allowed
  /\ CanCallModule(AU, AU, MGet).allowed
  /\ ~CanCallModule(AU, ORD, MGet).allowed

-----------------------------------------------------------------------------
(* The MFE clients behind the bridge: SpecClient                           *)

\* The step issues a call of an MFE's client
ClientCallIssued(t) ==
  /\ issued' = issued + 1
  /\ op'[t].kind = "call"
  /\ "client" \in DOMAIN op'[t]

\* C12: a call an MFE issues through its client to another module is
\* controlled by the permissions of that MFE's manifest: when the manifest
\* is registered and
\* canCallModule(MFE, target, method) denies, the call is rejected and the
\* target method is not invoked.
C12_ClientCallControlled ==
  [][\A t \in TaskIds :
       (/\ ClientCallIssued(t)
        /\ op'[t].client # op'[t].module
        /\ op'[t].client \in DOMAIN manifests
        /\ op'[t].client \in DOMAIN modulePermissions
        /\ ~CanCallModule(op'[t].client, op'[t].module, op'[t].method).allowed)
         => (op'[t].status = "rejected" /\ ~op'[t].invoked)]_vars

-----------------------------------------------------------------------------
(* The AuditLogger: SpecAudit                                              *)

Min(a, b) == IF a < b THEN a ELSE b

\* The k-th entry that is recorded carries the id k: the stored entries are
\* the last Min(k, MaxEntries) of the k recorded ones, in recording order
LastRecordedStored ==
  /\ Len(entries) = Min(nextId, MaxEntries)
  /\ \A i \in 1..Len(entries) : entries[i].id = nextId - Len(entries) + i

\* The step logs on the enabled logger
Records == enabled /\ issued' = issued + 1

\* A recording step stores the recorded entry last, keeps what was stored
\* before it in its order, and evicts from the front only
RecordedLast ==
  /\ nextId' = nextId + 1
  /\ entries' # << >>
  /\ entries'[Len(entries')].id = nextId'
  /\ Len(entries') = Min(Len(entries) + 1, MaxEntries)
  /\ SubSeq(entries', 1, Len(entries') - 1) =
       SubSeq(entries, Len(entries) - Len(entries') + 2, Len(entries))

\* C13: after k log operations on the enabled logger the stored entries are
\* the last Min(k, MaxEntries) recorded entries in recording order: there
\* are never more than MaxEntries, and the oldest are the ones evicted.
C13_LastEntriesKept ==
  /\ []LastRecordedStored
  /\ [][Records => RecordedLast]_vars

\* More entries were recorded than the logger keeps, the entries kept are
\* the last ones, and they differ in what they record
C13_Witness ==
  /\ nextId > MaxEntries
  /\ Len(entries) = MaxEntries
  /\ entries[1].id = nextId - MaxEntries + 1
  /\ entries[1].method # entries[Len(entries)].method

-----------------------------------------------------------------------------
(* The dependency resolver: SpecResolve                                    *)

\* The task holds the result of a run of the resolver
Ran(t) == op[t].kind = "resolve"

\* The resolved modules a resolved module names in its dependencies
DependsOn(resolved, a) == DependencyNames(resolved[a]) \cap DOMAIN resolved

\* The modules reached from the modules of from in at most k further steps
RECURSIVE Below(_, _, _)
Below(resolved, from, k) ==
  IF k = 0 THEN from
  ELSE Below(resolved, from \cup UNION { DependsOn(resolved, a) : a \in from }, k - 1)

\* No resolved module depends on itself, directly or through others
Acyclic(resolved) ==
  \A a \in DOMAIN resolved :
    a \notin Below(resolved, DependsOn(resolved, a), Cardinality(DOMAIN resolved))

\* The positions of name in order
Positions(order, name) == { i \in 1..Len(order) : order[i] = name }

\* C14: for a conflict-free, acyclic input, loadOrder holds the name of
\* every resolved module exactly once and no other name, and every module
\* a resolved module names in its dependencies stands before it.
C14_DependenciesFirst ==
  \A t \in TaskIds :
    (Ran(t) /\ op[t].result.conflicts = << >> /\ Acyclic(op[t].result.resolved)) =>
      /\ Range(op[t].result.loadOrder) = DOMAIN op[t].result.resolved
      /\ \A a \in DOMAIN op[t].result.resolved :
           /\ Cardinality(Positions(op[t].result.loadOrder, a)) = 1
           /\ \A b \in DependencyNames(op[t].result.resolved[a]) :
                \E i \in Positions(op[t].result.loadOrder, b) :
                  \A j \in Positions(op[t].result.loadOrder, a) : i < j

\* analytics, which names auth and orders, is resolved over a catalog with
\* auth 1.0.0 and orders, which names auth: auth, orders, analytics
C14_Witness ==
  /\ Ran(1)
  /\ op[1].requested = << AnalyticsBoth >>
  /\ manifests = (AU :> Auth100) @@ (ORD :> Orders)
  /\ op[1].result.conflicts = << >>
  /\ Acyclic(op[1].result.resolved)
  /\ op[1].result.loadOrder = << AU, ORD, AN >>

\* The names of the requested manifests
RequestedNames(requested) == { requested[i].name : i \in 1..Len(requested) }

\* The dependency spec names a module that neither the catalog nor the
\* requested list holds
Absent(t, depStr) ==
  ParseDependency(depStr).name \notin DOMAIN manifests \cup RequestedNames(op[t].requested)

\* The conflicts reported for the dependency spec depStr of module name
ConflictsFor(t, name, depStr) ==
  { j \in 1..Len(op[t].result.conflicts) :
      /\ op[t].result.conflicts[j].module = name
      /\ op[t].result.conflicts[j].required = depStr }

\* C15 as stated: for every requested manifest and every dependency of it
\* whose name is absent from the catalog and from the requested list,
\* exactly one conflict is reported for that dependency, and it has
\* module = the manifest's name, required = the spec, available = 'not found'.
C15_OneNotFoundConflict ==
  \A t \in TaskIds :
    Ran(t) =>
      \A i \in 1..Len(op[t].requested) :
        \A k \in 1..Len(op[t].requested[i].dependencies) :
          Absent(t, op[t].requested[i].dependencies[k]) =>
            /\ Cardinality(ConflictsFor(t, op[t].requested[i].name,
                                        op[t].requested[i].dependencies[k])) = 1
            /\ \A j \in ConflictsFor(t, op[t].requested[i].name,
                                      op[t].requested[i].dependencies[k]) :
                 op[t].result.conflicts[j].available = << "not found" >>

\* The requested manifests that are the first of their name in the list
FirstOfName(requested) ==
  { i \in 1..Len(requested) : \A j \in 1..(i - 1) : requested[j].name # requested[i].name }

\* The specs of the 'not found' conflicts reported for module name, in order
NotFoundReported(t, name) ==
  LET NotFound(c) == c.module = name /\ c.available = << "not found" >>
      Reported == SelectSeq(op[t].result.conflicts, NotFound)
  IN  [j \in 1..Len(Reported) |-> Reported[j].required]

\* The dependency specs of manifest with an absent name, in order
AbsentSpecs(t, manifest) ==
  LET IsAbsent(depStr) == Absent(t, depStr)
  IN  SelectSeq(manifest.dependencies, IsAbsent)

\* C15: a requested manifest that is the first of its name in the requested
\* list is the resolved manifest of that name, and for every resolved
\* manifest the 'not found' conflicts with module = its name are, in order,
\* its dependency specs whose name is absent from the catalog and from the
\* requested list: one conflict for every occurrence of such a spec.
C15_NotFoundPerOccurrence ==
  \A t \in TaskIds :
    Ran(t) =>
      /\ \A i \in FirstOfName(op[t].requested) :
           /\ op[t].requested[i].name \in DOMAIN op[t].result.resolved
           /\ op[t].result.resolved[op[t].requested[i].name] = op[t].requested[i]
      /\ \A n \in DOMAIN op[t].result.resolved :
           NotFoundReported(t, n) = AbsentSpecs(t, op[t].result.resolved[n])

\* orders, which names the unknown module and auth, and auth are requested
\* over the empty catalog: one conflict, for the unknown module
C15_Witness ==
  /\ Ran(1)
  /\ manifests = << >>
  /\ op[1].requested = << OrdersLost, Auth100 >>
  /\ op[1].result.conflicts =
       << [module |-> ORD, required |-> Dep(XX, Caret(V100)), available |-> << "not found" >>] >>

\* The caret rule on numbers: a.b.c against the baseline x.y.z
CaretRule(a, b, c, x, y, z) ==
  /\ a = x
  /\ IF x = 0 THEN b = y /\ c >= z ELSE b > y \/ (b = y /\ c >= z)

\* The numbers of a version string of three numbers
Numbers(version) == Get(ParseVersion(version))

\* version fails range, for the ranges of the resolver's inputs: '*' and
\* '^x.y.z'
Fails(version, range) ==
  /\ range # << "*" >>
  /\ ~CaretRule(Numbers(version).major, Numbers(version).minor, Numbers(version).patch,
                Numbers(SliceFrom(range, 1)).major, Numbers(SliceFrom(range, 1)).minor,
                Numbers(SliceFrom(range, 1)).patch)

\* The catalog overlaid with the requested manifests
Overlaid(t) == AllModules(op[t].requested, manifests)

\* The dependency spec names a module the overlaid catalog holds in a
\* version that fails the spec's range
Mismatched(t, depStr) ==
  /\ ParseDependency(depStr).name \in DOMAIN Overlaid(t)
  /\ Fails(Overlaid(t)[ParseDependency(depStr).name].version, ParseDependency(depStr).range)

\* The conflict of module name for the mismatched spec depStr
VersionConflict(t, name, depStr) ==
  [module |-> name, required |-> depStr,
   available |-> ParseDependency(depStr).name \o << "@" >>
                   \o Overlaid(t)[ParseDependency(depStr).name].version]

\* Some resolved manifest has a dependency spec that names dep and that the
\* version of dep satisfies
ReachedBySatisfied(t, dep) ==
  \E n \in DOMAIN op[t].result.resolved :
    \E k \in 1..Len(op[t].result.resolved[n].dependencies) :
      /\ ParseDependency(op[t].result.resolved[n].dependencies[k]).name = dep
      /\ ~Mismatched(t, op[t].result.resolved[n].dependencies[k])

\* C16 as stated: for every dependency spec of a resolved manifest whose
\* named module exists in a version that fails the range, the conflict
\* {module, required, available: 'name@version'} is reported, and the
\* dependency is resolved only if some spec that it satisfies reaches it.
C16_MismatchNotDescended ==
  \A t \in TaskIds :
    Ran(t) =>
      \A n \in DOMAIN op[t].result.resolved :
        \A k \in 1..Len(op[t].result.resolved[n].dependencies) :
          Mismatched(t, op[t].result.resolved[n].dependencies[k]) =>
            /\ \E j \in 1..Len(op[t].result.conflicts) :
                 op[t].result.conflicts[j] =
                   VersionConflict(t, n, op[t].result.resolved[n].dependencies[k])
            /\ ParseDependency(op[t].result.resolved[n].dependencies[k]).name
                   \in DOMAIN op[t].result.resolved
                 => ReachedBySatisfied(t,
                      ParseDependency(op[t].result.resolved[n].dependencies[k]).name)

\* The conflicts reported for module name that are no 'not found' conflicts
MismatchesReported(t, name) ==
  LET Mismatch(c) == c.module = name /\ c.available # << "not found" >>
  IN  SelectSeq(op[t].result.conflicts, Mismatch)

\* The mismatched dependency specs of manifest, in order
MismatchedSpecs(t, manifest) ==
  LET IsMismatched(depStr) == Mismatched(t, depStr)
  IN  SelectSeq(manifest.dependencies, IsMismatched)

\* C16: for every resolved manifest the conflicts with module = its name
\* that are no 'not found' conflicts are, in order, the conflicts
\* {module, required, available: 'name@version'} of its dependency specs
\* whose named module exists in a version that fails the range; and a
\* module is resolved only if it is a requested manifest or some spec that
\* it satisfies reaches it.
C16_MismatchReportedNotDescended ==
  \A t \in TaskIds :
    Ran(t) =>
      /\ \A n \in DOMAIN op[t].result.resolved :
           MismatchesReported(t, n) =
             [k \in 1..Len(MismatchedSpecs(t, op[t].result.resolved[n])) |->
                VersionConflict(t, n, MismatchedSpecs(t, op[t].result.resolved[n])[k])]
      /\ \A d \in DOMAIN op[t].result.resolved :
           d \in RequestedNames(op[t].requested) \/ ReachedBySatisfied(t, d)

\* analytics, which names auth in any version and orders, is resolved over
\* auth 0.5.0 and orders, which needs auth ^1.0.0: orders reports the
\* conflict, and auth is resolved all the same, reached by analytics
C16_Witness ==
  /\ Ran(1)
  /\ manifests = (AU :> Auth050) @@ (ORD :> Orders)
  /\ op[1].requested = << AnalyticsBoth >>
  /\ op[1].result.conflicts =
       << [module |-> ORD, required |-> Dep(AU, Caret(V100)),
           available |-> AU \o << "@" >> \o V050] >>
  /\ DOMAIN op[1].result.resolved = { AU, ORD, AN }

-----------------------------------------------------------------------------
(* The version matcher: SpecVersion                                        *)

\* satisfiesRange has returned for the task's version and range
Matched(t) == op[t].kind = "satisfies" /\ op[t].status = "resolved"

\* Text after a version's three numbers
Suffixes == { << >>, << "-", "b" >>, << ".", "5" >> }

\* C18: for a version that parses as a.b.c and a baseline x.y.z,
\* satisfiesRange(version, '^x.y.z') is true exactly when a = x and, for
\* x = 0, b = y and c >= z, for x > 0, b > y or b = y and c >= z.
C18_CaretRange ==
  \A t \in TaskIds :
    Matched(t) =>
      \A a \in VersionNumbers, b \in VersionNumbers, c \in VersionNumbers :
        op[t].version \in { VersionString(a, b, c) \o x : x \in Suffixes } =>
          \A x \in VersionNumbers, y \in VersionNumbers, z \in VersionNumbers :
            op[t].range = << "^" >> \o VersionString(x, y, z) =>
              op[t].result = CaretRule(a, b, c, x, y, z)

\* 0.10.2 against ^0.10.1 is satisfied
C18_Witness ==
  /\ Matched(1)
  /\ op[1].version = VersionString(0, 10, 2)
  /\ op[1].range = << "^" >> \o VersionString(0, 10, 1)
  /\ op[1].result = TRUE

\* s begins with three numbers separated by dots
BeginsWithTriplet(s) ==
  \E n1 \in 1..Len(s), n2 \in 1..Len(s), n3 \in 1..Len(s) :
    /\ n1 + n2 + n3 + 2 <= Len(s)
    /\ \A i \in 1..n1 : s[i] \in Digits
    /\ s[n1 + 1] = "."
    /\ \A i \in (n1 + 2)..(n1 + 1 + n2) : s[i] \in Digits
    /\ s[n1 + n2 + 2] = "."
    /\ \A i \in (n1 + n2 + 3)..(n1 + n2 + 2 + n3) : s[i] \in Digits

\* The version part of a range: what follows '^', '~' or '>=', or the
\* whole range
VersionPart(range) ==
  IF Len(range) > 0 /\ range[1] \in { "^", "~" } THEN SubSeq(range, 2, Len(range))
  ELSE IF Len(range) > 1 /\ range[1] = ">" /\ range[2] = "=" THEN SubSeq(range, 3, Len(range))
  ELSE range

\* C19 as stated: satisfiesRange is false for every version that does not
\* parse, whatever the range, and for every range whose version part does
\* not parse, whatever the version.
C19_FailsClosed ==
  \A t \in TaskIds :
    Matched(t) =>
      /\ ~BeginsWithTriplet(op[t].version) => op[t].result = FALSE
      /\ ~BeginsWithTriplet(VersionPart(op[t].range)) => op[t].result = FALSE

Wildcards == { << "*" >>, << "l", "a", "t", "e", "s", "t" >> }

\* C19: satisfiesRange is true for the ranges '*' and 'latest', whatever
\* the version; for every other range it is false for every version that
\* does not parse, and false for every version when the version part of the
\* range does not parse.
C19_FailsClosedButWildcards ==
  \A t \in TaskIds :
    Matched(t) =>
      IF op[t].range \in Wildcards THEN op[t].result = TRUE
      ELSE /\ ~BeginsWithTriplet(op[t].version) => op[t].result = FALSE
           /\ ~BeginsWithTriplet(VersionPart(op[t].range)) => op[t].result = FALSE

\* '1.0' against '>=1.0.x', neither of which parses, is not satisfied
C19_Witness ==
  /\ Matched(1)
  /\ op[1].version = << "1", ".", "0" >>
  /\ op[1].range = << ">", "=", "1", ".", "0", ".", "x" >>
  /\ op[1].result = FALSE

-----------------------------------------------------------------------------
(* The execution of a plan: SpecPlan                                       *)

\* The task executes a plan, or has executed one
Planned(t) == "plan" \in DOMAIN op[t]

PlanDone(t) == op[t].kind = "plan"

\* The steps whose call has been issued: those with a result, and the one
\* whose call is awaited
CallsIssued(t) ==
  IF PlanDone(t) THEN 1..Len(op[t].results) ELSE 1..op[t].step

\* The call of the step fails: the module has no API, or the method is not
\* a function of it that resolves
StepFails(step) ==
  ~ /\ step.module \in DOMAIN apis
    /\ step.method \in DOMAIN apis[step.module]
    /\ apis[step.module][step.method] = "resolves"

\* A step before step k failed and was marked waitFor
HaltedBefore(plan, k) ==
  \E j \in 1..(k - 1) : StepFails(plan[j]) /\ plan[j].waitFor = Some(TRUE)

\* C20: the call of step k of a plan is issued exactly when no step before
\* it both failed and was marked waitFor: while the plan is executed only
\* calls of such steps are issued, and when executePlan returns the call of
\* every such step has been issued, once, and has its result, in the order
\* of the plan.
C20_StopsAtFailedWaitFor ==
  \A t \in TaskIds :
    Planned(t) =>
      /\ \A k \in CallsIssued(t) : ~HaltedBefore(op[t].plan, k)
      /\ \A k \in 1..Len(op[t].results) :
           /\ op[t].results[k].stepId = op[t].plan[k].id
           /\ op[t].results[k].success = ~StepFails(op[t].plan[k])
      /\ PlanDone(t) =>
           /\ \A k \in 1..Len(op[t].plan) :
                ~HaltedBefore(op[t].plan, k) => k \in CallsIssued(t)
           /\ nextId = Len(op[t].results)

\* A plan of three steps was executed: the first step failed without
\* waitFor, the second failed with waitFor, and the third, which would have
\* succeeded, was not called
C20_Witness ==
  /\ PlanDone(1)
  /\ AU \in DOMAIN apis
  /\ Len(op[1].plan) = 3
  /\ op[1].plan[1].method = MSet /\ op[1].plan[1].waitFor = Null
  /\ op[1].plan[2].method = MNone /\ op[1].plan[2].waitFor = Some(TRUE)
  /\ op[1].plan[3].method = MGet
  /\ Len(op[1].results) = 2
  /\ ~op[1].results[1].success /\ ~op[1].results[2].success
  /\ nextId = 2

\* The step of the plan that result k stands for failed
FailedStep(t, k) == StepFails(op[t].plan[k])

\* C21: executePlan never fails: it returns, and what it holds and returns
\* is a list of results for a prefix of the plan, one per step and in the
\* order of the plan, where a result has success true and no error exactly
\* when the call of its step succeeded, and success false and an error
\* exactly when it failed.
C21_FailuresBecomeResults ==
  \A t \in TaskIds :
    Planned(t) =>
      /\ PlanDone(t) => op[t].status = "resolved"
      /\ Len(op[t].results) <= Len(op[t].plan)
      /\ \A k \in 1..Len(op[t].results) :
           /\ op[t].results[k].stepId = op[t].plan[k].id
           /\ op[t].results[k].success <=> ~FailedStep(t, k)
           /\ IsSome(op[t].results[k].error) <=> FailedStep(t, k)
           /\ IsSome(op[t].results[k].result) <=> ~FailedStep(t, k)

\* executePlan returned three results for a plan of three steps, of which
\* the first failed because the method rejected, the second succeeded and
\* the third failed because the method does not exist
C21_Witness ==
  /\ PlanDone(1)
  /\ op[1].status = "resolved"
  /\ Len(op[1].plan) = 3
  /\ Len(op[1].results) = 3
  /\ op[1].plan[1].method = MSet /\ IsSome(op[1].results[1].error)
  /\ op[1].plan[2].method = MGet /\ op[1].results[2].success
  /\ op[1].plan[3].method = MNone /\ IsSome(op[1].results[3].error)
  /\ \A k \in 1..3 : op[1].results[k].stepId = op[1].plan[k].id

\* The calls of the plan that have settled, which the audit log counts
SettledCalls(t) ==
  IF op[t].status = "running" THEN Len(op[t].results) ELSE Len(op[t].results) + 1

\* C22: the calls of a plan are issued one after the other in the order of
\* the plan: the call in flight or just settled is that of the step after
\* the last result, every call before it has settled (and has been logged),
\* a call is issued only for the first step or when the call of the step
\* before it has settled, and executePlan returns only when the last call
\* it issued has settled.
C22_OneCallInFlight ==
  /\ [](\A t \in TaskIds :
          Planned(t) /\ ~PlanDone(t) =>
            /\ op[t].step = Len(op[t].results) + 1
            /\ nextId = SettledCalls(t))
  /\ [][\A t \in TaskIds :
          /\ (Planned(t)' /\ ~PlanDone(t)' /\ (~Planned(t) \/ op'[t].step # op[t].step)) =>
                \/ ~Planned(t) /\ op'[t].step = 1
                \/ /\ Planned(t) /\ op[t].status \in { "resolved", "rejected" }
                   /\ op'[t].step = op[t].step + 1
          /\ (PlanDone(t)' /\ Planned(t)) =>
                op[t].status \in { "resolved", "rejected" }]_vars

\* The call of the third step of a plan is in flight, after the calls of
\* the first two steps have settled
C22_Witness ==
  /\ Planned(1) /\ ~PlanDone(1)
  /\ op[1].step = 3
  /\ op[1].status = "running"
  /\ Len(op[1].results) = 2
  /\ nextId = 2


-----------------------------------------------------------------------------
(* The processing of intents: SpecIntent                                   *)

\* The task processes an intent, or has processed one
Processed(t) == op[t].kind = "intent"

\* Pattern p accepts the intent, and every step of its handler targets a
\* module with a registered manifest
Qualifies(p, intent) ==
  /\ IsSome(Match(intent, Patterns[p].alts))
  /\ \A k \in 1..Len(StepsOf(p, intent)) : StepsOf(p, intent)[k].module \in DOMAIN manifests

\* Pattern p comes before pattern q: it is longer, or as long and
\* registered earlier
Before(p, q) ==
  \/ Patterns[p].length > Patterns[q].length
  \/ Patterns[p].length = Patterns[q].length /\ p < q

\* The first pattern that qualifies, if any does
FirstQualifying(intent) ==
  { p \in 1..Len(Patterns) :
      /\ Qualifies(p, intent)
      /\ \A q \in 1..Len(Patterns) : (q # p /\ Qualifies(q, intent)) => Before(p, q) }

\* C23: when a pattern accepts the intent and all steps of its handler
\* target registered modules, processIntent returns the plan of the first
\* such pattern in descending order of length, without asking the external
\* model; the external model is asked only when no pattern qualifies and a
\* model is configured; and the result has success true exactly when its
\* plan has a step.
C23_FirstQualifyingRule ==
  \A t \in TaskIds :
    Processed(t) =>
      /\ \A p \in FirstQualifying(op[t].intent) :
           /\ op[t].status = "resolved"
           /\ op[t].value = Some(IntentResult(TRUE, StepsOf(p, op[t].intent)))
           /\ ~op[t].llm
      /\ op[t].llm => FirstQualifying(op[t].intent) = {} /\ IsSome(llmConfig)
      /\ op[t].status = "resolved" =>
           (Get(op[t].value).success <=> Get(op[t].value).plan # << >>)

\* 'login and show analytics' was processed while analytics was registered
\* and auth was not: the longest pattern that accepts it, login, targets
\* auth, and the plan returned is that of the analytics pattern
C23_Witness ==
  /\ Processed(1)
  /\ op[1].intent = << "login", "and", "show", "analytics" >>
  /\ AU \notin DOMAIN manifests
  /\ AN \in DOMAIN manifests
  /\ op[1].status = "resolved"
  /\ Get(op[1].value).success
  /\ Len(Get(op[1].value).plan) = 1
  /\ Get(op[1].value).plan[1].module = AN

-----------------------------------------------------------------------------
(* Unloading and registering: SpecCall and Spec                            *)

\* The step is an unloadMFE of task t
Unloads(t) == op'[t].kind = "unload" /\ issued' = issued + 1

\* The name has no entry, or an entry that holds nothing of a load
Unloaded(name) ==
  name \in DOMAIN registry =>
    /\ registry[name].status = "pending"
    /\ registry[name].module = Null
    /\ registry[name].loadedAt = Null

\* The registry differs from the one before the step in the entry of name
\* at most
OthersKept(name) ==
  /\ DOMAIN registry' = DOMAIN registry
  /\ \A n \in DOMAIN registry \ { name } : registry'[n] = registry[n]

\* The API table differs from the one before in the registration of name
\* at most
OtherApisKept(name) ==
  /\ DOMAIN apis' \ { name } = DOMAIN apis \ { name }
  /\ \A n \in DOMAIN apis \ { name } : apis'[n] = apis[n]

\* C24 as stated: unloadMFE of a name that is unknown or already unloaded
\* leaves the registry and the API table as they were.
C24_UnloadedNameUntouched ==
  [][\A t \in TaskIds :
       (Unloads(t) /\ Unloaded(op'[t].name)) => UNCHANGED << registry, apis >>]_vars

\* C24: unloadMFE(name) leaves the entry of the name, if there is one,
\* pending, without module and without loadedAt, and the API table without
\* a registration for the name; every other entry and registration is
\* kept and no entry is created; a second unloadMFE of the name changes
\* neither the registry nor the API table; and for a name that is unknown
\* or already unloaded the registry is as it was, and so is the API table
\* unless registerAPI had registered an API for the name, which is removed.
C24_UnloadResets ==
  [][\A t \in TaskIds :
       Unloads(t) =>
         /\ OthersKept(op'[t].name)
         /\ OtherApisKept(op'[t].name)
         /\ op'[t].name \notin DOMAIN apis'
         /\ op'[t].name \in DOMAIN registry =>
              registry'[op'[t].name] =
                [registry[op'[t].name] EXCEPT !.status = "pending", !.module = Null,
                                              !.loadedAt = Null]
         /\ Unloaded(op'[t].name) =>
              /\ registry' = registry
              /\ op'[t].name \notin DOMAIN apis => apis' = apis
         /\ (op[t].kind = "unload" /\ op[t].name = op'[t].name) =>
              UNCHANGED << registry, apis >>]_vars

\* auth was loaded with an API and unloaded, twice or after another
\* operation: its entry is pending without module and loadedAt, and it has
\* no API
C24_Witness ==
  /\ op[1].kind = "unload"
  /\ issued = 3
  /\ AU \in DOMAIN registry
  /\ registry[AU].status = "pending"
  /\ registry[AU].module = Null
  /\ registry[AU].loadedAt = Null
  /\ AU \notin DOMAIN apis

\* The step is a registerModuleManifest of task t
Registers(t) == op'[t].kind = "register" /\ issued' = issued + 1

\* C25: registerModuleManifest of a manifest whose name has no entry
\* creates a pending entry with the manifest and without module, failure
\* and loadedAt; for a name that has an entry it replaces the manifest of
\* the entry and nothing else of it; in both cases the API table and the
\* entries of the other names are as they were.
C25_RegisterReplacesManifestOnly ==
  [][\A t \in TaskIds :
       Registers(t) =>
         /\ registry'[op'[t].name] =
              IF op'[t].name \in DOMAIN registry
              THEN [registry[op'[t].name] EXCEPT !.manifest = manifests'[op'[t].name]]
              ELSE [manifest |-> manifests'[op'[t].name], module |-> Null,
                    status |-> "pending", error |-> Null, loadedAt |-> Null]
         /\ DOMAIN registry' = DOMAIN registry \cup { op'[t].name }
         /\ \A n \in DOMAIN registry \ { op'[t].name } : registry'[n] = registry[n]
         /\ apis' = apis]_vars

\* The manifest of auth 0.5.0 was registered while auth was loaded from
\* the manifest of auth 1.0.0: the entry is still loaded, with the module
\* of 1.0.0, its API is registered, and its manifest is that of 0.5.0
C25_Witness ==
  /\ op[1].kind = "register"
  /\ AU \in DOMAIN registry
  /\ registry[AU].status = "loaded"
  /\ registry[AU].manifest = Auth050
  /\ IsSome(registry[AU].module)
  /\ Get(registry[AU].module).manifest = Auth100
  /\ IsSome(registry[AU].loadedAt)
  /\ AU \in DOMAIN apis

\* C26: an entry of the registry holds a stored failure exactly when its
\* status is error.
C26_FailureIffStatusError ==
  \A n \in DOMAIN registry : IsSome(registry[n].error) <=> registry[n].status = "error"

\* C27: an entry of the registry holds a module and a loadedAt exactly when
\* its status is loaded.
C27_ModuleIffStatusLoaded ==
  \A n \in DOMAIN registry :
    (IsSome(registry[n].module) /\ IsSome(registry[n].loadedAt)) <=>
      registry[n].status = "loaded"

-----------------------------------------------------------------------------
(* The subscriptions: SpecEvents                                           *)

\* The subscriptions of the handler for the type whose unsubscribe
\* function has not been called
LiveSubscriptions(type, handler) ==
  { h \in 1..Len(handles) :
      /\ handles[h].type = type
      /\ handles[h].handler = handler
      /\ ~handles[h].called }

\* How often an event of the type is handed to the handler
Deliveries(type, handler) ==
  Cardinality({ i \in 1..Len(Invoked(type)) : Invoked(type)[i] = handler })

\* C28: an event is handed to a handler once for each of its subscriptions
\* for the type whose unsubscribe function has not been called: calling the
\* function ends the subscription it was returned for, once, and no other.
C28_UnsubscribeRemovesItsSubscription ==
  \A type \in EventTypes, handler \in EventHandlers :
    Deliveries(type, handler) = Cardinality(LiveSubscriptions(type, handler))

-----------------------------------------------------------------------------
(* The statistics of the audit log: SpecStats                              *)

\* The durations of the stored entries of the module that are not negative
RECURSIVE SumOfDurations(_, _)
SumOfDurations(es, module) ==
  IF es = << >> THEN 0
  ELSE (IF Head(es).module = module /\ Head(es).duration >= 0 THEN Head(es).duration ELSE 0)
         + SumOfDurations(Tail(es), module)

CompletedOf(es, module) ==
  Len(SelectSeq(es, LAMBDA e : e.module = module /\ e.duration >= 0))

\* C29: the avgDuration that getStats reports for a module is the sum of
\* the durations of the stored entries of the module that are not negative,
\* divided by the number of these entries.
C29_AvgDurationIsMean ==
  \A t \in TaskIds :
    op[t].kind = "getStats" =>
      \A m \in DOMAIN op[t].value.moduleStats :
        CompletedOf(op[t].entries, m) > 0 =>
          op[t].value.moduleStats[m].avgDuration.num * CompletedOf(op[t].entries, m) =
            SumOfDurations(op[t].entries, m) * op[t].value.moduleStats[m].avgDuration.den

-----------------------------------------------------------------------------
(* Overlapping loads: SpecOverlap                                          *)

\* The callers with an invocation of importFn for the module in flight
Importing(name) ==
  { t \in OverlapTasks :
      \E k \in 1..Len(stack[t]) :
        stack[t][k].pc = "importing" /\ stack[t][k].manifest.name = name }

\* C30: at no time are two invocations of the loader for one module name
\* in flight.
C30_OneLoadInFlightPerName ==
  \A name \in Names : Cardinality(Importing(name)) <= 1

-----------------------------------------------------------------------------
(* Overlapping calls: SpecCallOverlap                                      *)

\* The call of caller t is at its target method
AtMethod(t) == op[t].kind = "call" /\ op[t].status = "running"

\* The last stored entry is that of the call of caller t
LastEntryOf(t) ==
  /\ entries' # << >>
  /\ entries'[Len(entries')].args = ArgsOf(t)
  /\ entries'[Len(entries')].method = op[t].method
  /\ entries'[Len(entries')].id = nextId + 1

\* C31: the entry of a call that reached its target method is appended
\* when the method settles, after the entries stored by then, and not when
\* the call is issued; so the entries of two overlapping calls stand in
\* the order in which their methods settled.
C31_EntriesInSettlementOrder ==
  [][\A t \in OverlapTasks :
       /\ (AtMethod(t) /\ ~AtMethod(t)') =>
            /\ LastEntryOf(t)
            /\ entries' = Trim(Append(entries, entries'[Len(entries')]))
       /\ (~AtMethod(t) /\ AtMethod(t)') => entries' = entries]_vars

\* The second caller's call was issued while the first caller's call was
\* at its method, and settled first: its entry stands before that of the
\* first caller's call
C31_Witness ==
  /\ op[1].kind = "call" /\ op[1].status \in { "resolved", "rejected" } /\ op[1].invoked
  /\ op[2].kind = "call" /\ op[2].status \in { "resolved", "rejected" } /\ op[2].invoked
  /\ Len(entries) = 2
  /\ entries[1].args = ArgsOf(2) /\ entries[1].id = 1
  /\ entries[2].args = ArgsOf(1) /\ entries[2].id = 2

-----------------------------------------------------------------------------
(* A failing dependency: Spec                                              *)

\* The names whose loadMFE failed during the operation of caller t
FailedNames(t) ==
  { emitted[t][i].payload.name :
      i \in { j \in 1..Len(emitted[t]) : emitted[t][j].type = "module:error" } }

\* The loadMFE of caller t rejected because the load of a dependency failed
DependencyFailed(t) ==
  /\ op[t].kind = "load" /\ op[t].status = "rejected"
  /\ FailedNames(t) \ { op[t].name } # {}

\* C32: when a load rejected because the load of a dependency failed, the
\* failure of the loader was the last thing a loader did (nothing was
\* loaded after it), the loader of the dependent was never invoked, no load
\* is left under way, and the failed dependency and the dependent have
\* status error.
C32_DependencyFailureAborts ==
  \A t \in TaskIds :
    DependencyFailed(t) =>
      /\ \A i \in 1..Len(loaderLog[t]) :
           /\ loaderLog[t][i].ev = "rejected" => i = Len(loaderLog[t])
           /\ loaderLog[t][i].name # op[t].name
      /\ \A n \in FailedNames(t) \cup { op[t].name } : registry[n].status = "error"
      /\ \A n \in DOMAIN registry : registry[n].status # "loading"
      /\ \A i, j \in 1..Len(emitted[t]) :
           (i < j /\ emitted[t][i].type = "module:error")
             => emitted[t][j].type = "module:error"
      /\ emitted[t][Len(emitted[t])].payload.name = op[t].name

\* analytics was loaded with nothing loaded; the loader of auth, first in
\* its load order, rejected: orders is not loaded
C32_Witness ==
  /\ DependencyFailed(1)
  /\ op[1].name = AN
  /\ loaderLog[1] # << >>
  /\ loaderLog[1][Len(loaderLog[1])].ev = "rejected"
  /\ loaderLog[1][Len(loaderLog[1])].name = AU
  /\ ORD \in DOMAIN registry /\ registry[ORD].status = "pending"
  /\ registry[AU].status = "error" /\ registry[AN].status = "error"

-----------------------------------------------------------------------------
(* Dependencies of a loaded module: SpecCyclic                             *)

\* The dependency dep of a manifest is loaded in a version its range admits
DependencyLoaded(dep) ==
  LET pd == ParseDependency(dep)
  IN  /\ pd.name \in DOMAIN registry
      /\ registry[pd.name].status = "loaded"
      /\ SatisfiesRange(registry[pd.name].manifest.version, pd.range)

\* C33: when loadMFE of a registered manifest has resolved, every
\* dependency the manifest names is loaded in a version satisfying its
\* range, whatever the shape of the registered dependency graph.
C33_DependenciesLoadedOnSuccess ==
  \A t \in TaskIds :
    (Registered(t) /\ op[t].status = "resolved") =>
      \A i \in 1..Len(manifests[op[t].name].dependencies) :
        DependencyLoaded(manifests[op[t].name].dependencies[i])

-----------------------------------------------------------------------------
(* The size of the log: SpecStats                                          *)

\* C34: after any sequence of log, logStart and logComplete the logger
\* stores at most maxEntries entries.
C34_EntriesWithinMax == Len(entries) <= MaxEntries

-----------------------------------------------------------------------------
(* APIs of modules that are not loaded: Spec                               *)

\* The module is pending, in error, or loading without having been loaded
\* since it was registered or unloaded
NeverLoadedOrFailed(name) ==
  /\ registry[name].status # "loaded"
  /\ registry[name].status = "loading" => registry[name].module = Null

\* C35: without direct registerAPI, a module that is not loaded has no API
\* registered, so that no call reaches one of its methods.
C35_NoApiUnlessLoaded ==
  \A name \in DOMAIN registry : NeverLoadedOrFailed(name) => name \notin DOMAIN apis

-----------------------------------------------------------------------------
(* Unload during a load: SpecUnloadOverlap                                 *)

\* A loadMFE of the first caller awaits the loader of the module, which
\* the second caller has unloaded meanwhile: it is pending without an API
UnloadedInFlight(name) ==
  /\ \E i \in 1..Len(stack[1]) :
       stack[1][i].manifest.name = name /\ stack[1][i].pc = "importing"
  /\ op[2].kind = "unload" /\ op[2].name = name
  /\ name \in DOMAIN registry /\ registry[name].status = "pending"
  /\ name \notin DOMAIN apis

\* C36: a module unloaded while its load awaited the loader stays not
\* loaded and without an API as long as no new operation is issued: the
\* completion of the load in flight does not load it.
C36_UnloadOutlivesLoadInFlight ==
  [][\A name \in Names :
       (UnloadedInFlight(name) /\ issued' = issued) =>
         /\ registry'[name].status # "loaded"
         /\ name \notin DOMAIN apis']_vars

-----------------------------------------------------------------------------
(* The dispatch of an event: SpecDispatch                                  *)

\* How often the handler stands in the sequence
Occurrences(seq, handler) ==
  Cardinality({ i \in 1..Len(seq) : seq[i] = handler })

\* C37: an emit invokes every handler subscribed to the type when it
\* starts exactly once, also when handlers throw or unsubscribe during the
\* dispatch, and the operation that emits completes as without handlers.
C37_EveryHandlerInvokedOnce ==
  [][\A t \in TaskIds :
       (op'[t].kind = "unload" /\ issued' = issued + 1) =>
         /\ \A handler \in DispatchHandlers :
              Occurrences(Invoked("module:unloaded"), handler)
                = Occurrences(HandlersOf("module:unloaded"), handler)
         /\ op'[t].status = "resolved"
         /\ op'[t].name \notin DOMAIN apis']_vars

-----------------------------------------------------------------------------
(* Permissions of registered manifests: SpecRegister                       *)

\* C38: the permissions the manager holds for a module are those its most
\* recently registered manifest declares; a module whose manifest declares
\* none is unconfigured and denied as a caller of every module that is not
\* globally allowed.
C38_PermissionsOfLatestManifest ==
  \A name \in DOMAIN manifests :
    IF IsSome(manifests[name].permissions)
    THEN /\ name \in DOMAIN modulePermissions
         /\ modulePermissions[name] = Get(manifests[name].permissions)
    ELSE /\ name \notin DOMAIN modulePermissions
         /\ \A target \in Names \ globalAllowedModules :
              ~CanCallModule(name, target, MGet).allowed

-----------------------------------------------------------------------------
(* Loads settle: SpecCyclicLive                                            *)

\* The loadMFE of caller t has settled
LoadSettled(t) == op[t].kind = "load" /\ op[t].status \in { "resolved", "rejected" }

\* C39: when every loader invocation settles, every loadMFE settles, also
\* with cyclic and self-referencing dependencies registered, and when it
\* has settled the module is loaded if it resolved and in error if it
\* rejected.
C39_LoadsSettle ==
  /\ \A t \in TaskIds :
       (op[t].kind = "load" /\ op[t].status = "running") ~> LoadSettled(t)
  /\ [](\A t \in TaskIds :
         LoadSettled(t) =>
           registry[op[t].name].status =
             (IF op[t].status = "resolved" THEN "loaded" ELSE "error"))

\* With auth and orders registered in a cycle, the load of orders has
\* resolved
C39_Witness ==
  /\ LoadSettled(1)
  /\ op[1].name = ORD /\ op[1].status = "resolved"
  /\ DOMAIN manifests = { AU, ORD }
  /\ manifests[AU] = AuthBack
  /\ manifests[ORD] = Orders

-----------------------------------------------------------------------------
(* Cycles and the load order: SpecResolveCyclic                            *)

\* The resolved module depends on itself, directly or through others
OnCycle(resolved, a) ==
  a \in Below(resolved, DependsOn(resolved, a), Cardinality(DOMAIN resolved))

\* C40: a resolved module that lies on no dependency cycle stands in the
\* load order exactly once; only modules on a cycle are missing from it.
C40_OnlyCyclesMissing ==
  \A t \in TaskIds :
    (op[t].kind = "resolve" /\ op[t].status = "resolved") =>
      \A a \in DOMAIN op[t].result.resolved :
        ~OnCycle(op[t].result.resolved, a) =>
          Cardinality(Positions(op[t].result.loadOrder, a)) = 1

=============================================================================
